---------------------------- MODULE Spec2Model ----------------------------
(***************************************************************************)
(* Model of the block-lifecycle core of the Romer validator node:          *)
(*   - Block / BlockStorage          (src/src/storage.rs)                  *)
(*   - Proposer (Automaton/Committer) (src/src/consensus/proposer.rs)      *)
(*   - ConsensusRelay                 (src/src/consensus/relay.rs)         *)
(*                                                                         *)
(* Every call of propose / verify / committed (and the direct calls of     *)
(* validate_block made by the module's unit tests) is a task.  A task      *)
(* advances one step per await point at which it can be suspended: the     *)
(* acquisition of the storage mutex, of the relay mutex, and of the        *)
(* latest_hash mutex.  tokio's Mutex is not re-entrant: a task that locks  *)
(* a mutex it already holds waits for itself.                              *)
(*                                                                         *)
(* Hashes are modelled as tuples: the digest of a block is the tuple of    *)
(* the three fields that calculate_hash feeds to SHA-256 (collision        *)
(* freedom of SHA-256 is assumed), the constant digests [1;32], [2;32]     *)
(* and [0;32] are one-element tuples.                                      *)
(***************************************************************************)
EXTENDS Integers, Sequences, FiniteSets, TLC

(***************************************************************************)
(* Bounds of the model.                                                    *)
(***************************************************************************)
\* number of calls that can be in progress at the same time
MaxTasks == 2
\* the wall clock (seconds) runs from 1 to MaxTime
MaxTime == 2
\* create_block is not called on a parent of this height or above
MaxHeight == 2
\* direct callers of BlockStorage use the heights 0..MaxGapHeight (and the
\* heights around the first section boundary)
MaxGapHeight == 6
\* the longest validator list of a region
MaxList == 2
\* the highest view the engine asks a leader for
MaxView == 1

Tasks == 1..MaxTasks
Free == 0

(***************************************************************************)
(* Digests.                                                                *)
(***************************************************************************)
\* [1; 32], the genesis sentinel
G == <<1>>
\* [2; 32], a digest no block hashes to (the tests' "wrong_parent")
Absent == <<2>>
\* [0; 32], the value of the hash field before Block::new fills it in
Zero == <<0>>

VARIABLES
    store,         \* BlockStorage: the blocks held by the archive
    latest_hash,   \* Proposer.latest_hash
    storage_lock,  \* owner of Proposer.storage (Arc<Mutex<BlockStorage>>), or Free
    relay_lock,    \* owner of Proposer.relay (Arc<Mutex<ConsensusRelay>>), or Free
    now,           \* SystemTime::now() in seconds
    relay_storage_lock, \* owner of ConsensusRelay.storage, or Free
    validators_by_region, \* BeaconConsensus: region -> validators, in
                   \* registration order (a region without entry has no key)
    current_region_idx,   \* BeaconConsensus: where the rotation looks next
    bcall,         \* bcall[t]: the BeaconConsensus call of thread t
    last_region,   \* the region the last leader call selected, "none" after
                   \* a registry change
    vacated,       \* <<region, v>>: v was removed as the only validator of
                   \* region, and nothing was registered there since
    kind,          \* kind[t]: the call task t runs
    pc,            \* pc[t]: the await point task t is at
    ctx,           \* ctx[t]: the parent hash of the call's context (for
                   \* handle_message: the sender)
    payload,       \* payload[t]: the digest argument of verify / committed
    blk,           \* blk[t]: the block the task works on
    par,           \* par[t]: the parent block validate_block looked up
    res,           \* res[t]: what the call delivered
    log            \* log[t]: the storage / relay / cache effects of the call, in order

beaconVars ==
    <<validators_by_region, current_region_idx, bcall, last_region, vacated>>

vars == <<store, latest_hash, storage_lock, relay_lock, now, relay_storage_lock,
          beaconVars,
          kind, pc, ctx, payload, blk, par, res, log>>

taskVars == <<kind, pc, ctx, payload, blk, par, res, log>>

(***************************************************************************)
(* Block (storage.rs).                                                     *)
(***************************************************************************)
NoBlock == [number |-> 0, parent_hash |-> Zero, hash |-> Zero, timestamp |-> 0]

calculate_hash(b) == <<b.number, b.parent_hash, b.timestamp>>

Block_new(number, parent_hash, timestamp) ==
    LET b == [number |-> number, parent_hash |-> parent_hash,
              hash |-> Zero, timestamp |-> timestamp]
    IN  [b EXCEPT !.hash = calculate_hash(b)]

\* Block::validate with "timestamp < parent.timestamp" as the last check
Block_validate_TimestampNotStrict(b, hasParent, parent) ==
    IF b.hash # calculate_hash(b) THEN "InvalidHash"
    ELSE IF hasParent
         THEN IF b.parent_hash # parent.hash THEN "InvalidParentHash"
              ELSE IF b.number # parent.number + 1 THEN "InvalidBlockNumber"
              ELSE IF b.timestamp < parent.timestamp THEN "InvalidTimestamp"
              ELSE "Ok"
         ELSE IF b.number # 0 THEN "MissingParent"
              ELSE "Ok"

\* Block::validate without the "else if self.number != 0" branch
Block_validate_GenesisAnyNumber(b, hasParent, parent) ==
    IF b.hash # calculate_hash(b) THEN "InvalidHash"
    ELSE IF hasParent
         THEN IF b.parent_hash # parent.hash THEN "InvalidParentHash"
              ELSE IF b.number # parent.number + 1 THEN "InvalidBlockNumber"
              ELSE IF b.timestamp <= parent.timestamp THEN "InvalidTimestamp"
              ELSE "Ok"
         ELSE "Ok"

\* Block::validate with the hash check moved behind the parent checks
Block_validate_HashLast(b, hasParent, parent) ==
    IF hasParent /\ b.parent_hash # parent.hash THEN "InvalidParentHash"
    ELSE IF hasParent /\ b.number # parent.number + 1 THEN "InvalidBlockNumber"
    ELSE IF hasParent /\ b.timestamp <= parent.timestamp THEN "InvalidTimestamp"
    ELSE IF b.hash # calculate_hash(b) THEN "InvalidHash"
    ELSE IF ~hasParent /\ b.number # 0 THEN "MissingParent"
    ELSE "Ok"

\* Block::validate(&self, parent: Option<&Block>); hasParent = parent.is_some()
Block_validate(b, hasParent, parent) ==
    IF b.hash # calculate_hash(b) THEN "InvalidHash"
    ELSE IF hasParent
         THEN IF b.parent_hash # parent.hash THEN "InvalidParentHash"
              ELSE IF b.number # parent.number + 1 THEN "InvalidBlockNumber"
              ELSE IF b.timestamp <= parent.timestamp THEN "InvalidTimestamp"
              ELSE "Ok"
         ELSE IF b.number # 0 THEN "MissingParent"
              ELSE "Ok"

(***************************************************************************)
(* BlockStorage (storage.rs).  The archive is write-once per index: a put  *)
(* on a height that is already present is rejected, and any put may be     *)
(* rejected by the persistence layer.                                      *)
(***************************************************************************)
\* get_block_by_hash: the set of blocks the lookup can yield (empty: None)
get_block_by_hash(s, h) == {b \in s : b.hash = h}

has_block(s, n) == \E b \in s : b.number = n

\* get_block_by_number: the set of blocks the lookup can yield (empty: None)
get_block_by_number(s, n) == {b \in s : b.number = n}

\* the number of heights in one section of the archive (section_mask is
\* 0xffff_ffff_ffff_0000)
SectionSize == 65536

\* section_mask & min: the section boundary at or below min
SectionFloor(min) == min - (min % SectionSize)

\* the heights stored in s
Heights(s) == {b.number : b \in s}

\* a next_gap that reports the bounds of the first run of missing heights
\* at or after n, and nothing when no stored height follows it
next_gap_AroundMissing(s, n) ==
    LET H == Heights(s)
        full(m) == Cardinality({k \in H : n <= k /\ k <= m}) = m - n + 1
        g == IF n \in H
             THEN (CHOOSE m \in H : m >= n /\ full(m) /\ (m + 1) \notin H) + 1
             ELSE n
        before == {x \in H : x > g /\ \A y \in H : y > g => x <= y}
    IN  IF before = {} THEN <<{}, {}>>
        ELSE <<{a \in H : a = g - 1}, before>>

\* next_gap(number): (the end of the run of stored heights that holds
\* number, the start of the next run of stored heights after number), each
\* an Option, here a set with at most one element
next_gap(s, n) ==
    LET H == Heights(s)
        full(m) == Cardinality({k \in H : n <= k /\ k <= m}) = m - n + 1
        end == {m \in H : m >= n /\ full(m) /\ (m + 1) \notin H}
        starts == {x \in H : x > n /\ (x - 1) \notin H}
    IN  <<end, {x \in starts : \A y \in starts : x <= y}>>

\* a prune that removes every block below min
prune_Exact(s, min) ==
    {<<FALSE, s>>, <<TRUE, {b \in s : b.number >= min}>>}

\* prune(min_block): the outcomes <<ok, store'>>; the archive drops whole
\* sections, those below the section boundary at or below min_block
prune(s, min) ==
    {<<FALSE, s>>, <<TRUE, {b \in s : b.number >= SectionFloor(min)}>>}

\* put_block: the outcomes <<ok, store'>> of one call
put_block(s, b) ==
    {<<FALSE, s>>} \cup
    (IF has_block(s, b.number) THEN {} ELSE {<<TRUE, s \cup {b}>>})

(***************************************************************************)
(* Results and effect log of a call.                                       *)
(***************************************************************************)
NoRes == [tag |-> "none", hash |-> Zero, ok |-> FALSE, err |-> "none"]
\* the oneshot sender was given a digest
DeliveredHash(h, e) == [tag |-> "hash", hash |-> h, ok |-> FALSE, err |-> e]
\* the oneshot sender was given a boolean
DeliveredBool(v, e) == [tag |-> "bool", hash |-> Zero, ok |-> v, err |-> e]
\* the oneshot sender was dropped without a value
Dropped(e) == [tag |-> "dropped", hash |-> Zero, ok |-> FALSE, err |-> e]
\* the Result of a direct validate_block call
Verdict(e) == [tag |-> "verdict", hash |-> Zero, ok |-> (e = "Ok"), err |-> e]
\* committed returned ()
Returned == [tag |-> "unit", hash |-> Zero, ok |-> TRUE, err |-> "none"]

\* the call panicked
Panicked == [tag |-> "panic", hash |-> Zero, ok |-> FALSE, err |-> "panic"]

\* the number of bytes of a digest
HashLen == 32

\* A byte slice (&[u8], Vec<u8>) handed in as a digest: its length and, when
\* it has HashLen bytes or more, the digest its first HashLen bytes spell.
Slice(h, len) == [head |-> h, len |-> len]

\* the slices a caller can pass for the digests H: exactly HashLen bytes,
\* one byte more, one byte less, and the empty slice
Slices(H) ==
    {Slice(h, l) : h \in H, l \in {HashLen, HashLen + 1}}
        \cup {Slice(Zero, l) : l \in {0, HashLen - 1}}

\* &payload[..32] is out of range: the slice expression panics
SliceOutOfRange(p) == p.len < HashLen

\* one effect: op on digest h with outcome out ("some" / "none" / "err" for
\* a lookup, "ok" / "err" for a put, a send or a cache update)
Ev(op, h, out) == [op |-> op, hash |-> h, out |-> out]

\* the outcome of a Result<(), _>
Outcome(ok) == IF ok THEN "ok" ELSE "err"

\* The digests a caller can name: the sentinel, a digest of no block, and
\* the hashes of the blocks stored so far.
CallHashes == {G, Absent} \cup {b.hash : b \in store}

(***************************************************************************)
(* BeaconConsensus (beacon.rs): data.                                      *)
(***************************************************************************)
\* the thread of the consensus engine, which asks the Supervisor
Engine == 1

\* the thread that handles peer messages and changes the registry
Registrar == 2

BThreads == {Engine, Registrar}

\* the result of a BeaconConsensus or handle_message call: Ok(()) / Err(e),
\* Some(val) / None
BRet(tag, err, val) == [tag |-> tag, err |-> err, val |-> val]

BOk == BRet("Ok", "none", <<>>)

BErr(e) == BRet("Err", e, <<>>)

BSome(val) == BRet("Some", "none", val)

BNone == BRet("None", "none", <<>>)

\* no call: the thread is idle.  region, key, view are the arguments of a
\* call (for leader, region is the region it selected and prev the region
\* the leader call before it selected, "none" when the registry has changed
\* in between); mutated and allEmpty tell, for a leader call between its
\* two lock sections, whether the registry has changed and whether all
\* regions were empty at some instant since the call began.
NoCall ==
    [op |-> "none", pc |-> "idle", region |-> "none", key |-> <<>>, view |-> 0,
     ret |-> BNone, prev |-> "none", mutated |-> FALSE, allEmpty |-> FALSE]

Init ==
    /\ store = {}
    /\ latest_hash = G
    /\ storage_lock = Free
    /\ relay_lock = Free
    /\ relay_storage_lock = Free
    /\ validators_by_region = [r \in {} |-> <<>>]
    /\ current_region_idx = 0
    /\ bcall = [t \in BThreads |-> NoCall]
    /\ last_region = "none"
    /\ vacated = {}
    /\ now = 1
    /\ kind = [t \in Tasks |-> "none"]
    /\ pc = [t \in Tasks |-> "idle"]
    /\ ctx = [t \in Tasks |-> Zero]
    /\ payload = [t \in Tasks |-> Zero]
    /\ blk = [t \in Tasks |-> NoBlock]
    /\ par = [t \in Tasks |-> NoBlock]
    /\ res = [t \in Tasks |-> NoRes]
    /\ log = [t \in Tasks |-> <<>>]

\* The wall clock advances.
Tick ==
    /\ now < MaxTime
    /\ now' = now + 1
    /\ UNCHANGED <<store, latest_hash, storage_lock, relay_lock,
                   relay_storage_lock, beaconVars, taskVars>>

\* The engine has taken the result of a finished call; the slot is free again.
Retire(t) ==
    /\ pc[t] = "done"
    /\ kind' = [kind EXCEPT ![t] = "none"]
    /\ pc' = [pc EXCEPT ![t] = "idle"]
    /\ ctx' = [ctx EXCEPT ![t] = Zero]
    /\ payload' = [payload EXCEPT ![t] = Zero]
    /\ blk' = [blk EXCEPT ![t] = NoBlock]
    /\ par' = [par EXCEPT ![t] = NoBlock]
    /\ res' = [res EXCEPT ![t] = NoRes]
    /\ log' = [log EXCEPT ![t] = <<>>]
    /\ UNCHANGED <<store, latest_hash, storage_lock, relay_lock, now, relay_storage_lock, beaconVars>>


(***************************************************************************)
(* ConsensusRelay (relay.rs).                                              *)
(***************************************************************************)
\* send_to: the outcomes of serialising a message and handing it to the
\* transport: Ok(()) (TRUE) or a RelayError (FALSE)
send_to == BOOLEAN

\* request_block(hash): send BlockRequest(hash) to the peers
request_block == send_to

\* broadcast_block(block): send NewBlock(block) to all peers
broadcast_block == send_to

(***************************************************************************)
(* Proposer::genesis (proposer.rs).                                        *)
(***************************************************************************)
\* a genesis() that returns the cached latest hash
genesis_LatestHash == latest_hash

\* the digest genesis() returns
genesis == G

Genesis(t) ==
    /\ pc[t] = "idle"
    /\ kind' = [kind EXCEPT ![t] = "genesis"]
    /\ res' = [res EXCEPT ![t] = DeliveredHash(genesis, "Ok")]
    /\ pc' = [pc EXCEPT ![t] = "done"]
    /\ UNCHANGED <<store, latest_hash, storage_lock, relay_lock, now, relay_storage_lock, beaconVars,
                   ctx, payload, blk, par, log>>

(***************************************************************************)
(* Proposer::propose (proposer.rs), with create_block inlined up to its    *)
(* return.                                                                 *)
(***************************************************************************)
\* the parents propose is called with
ProposeParents ==
    {G, Absent} \cup {b.hash : b \in {x \in store : x.number < MaxHeight}}

\* create_block's "parent_number" for the genesis sentinel
GenesisParentNumber == 0

\* the block create_block returns for a parent of number n
NewBlockOn(n, parent_hash) == Block_new(n + 1, parent_hash, now)

\* an Err(_) arm that drops the oneshot sender
OnCreateError_Drop(parent_hash, e) == Dropped(e)

\* the spawned task's Err(_) arm: what it hands to the oneshot sender
OnCreateError(parent_hash, e) == DeliveredHash(parent_hash, e)

StartPropose(t, parent_hash) ==
    /\ pc[t] = "idle"
    /\ kind' = [kind EXCEPT ![t] = "propose"]
    /\ ctx' = [ctx EXCEPT ![t] = parent_hash]
    /\ pc' = [pc EXCEPT ![t] = "cb_lock"]
    /\ UNCHANGED <<store, latest_hash, storage_lock, relay_lock, now, relay_storage_lock, beaconVars,
                   payload, blk, par, res, log>>

\* create_block: storage.lock().await, then the parent lookup
CreateBlockLock(t) ==
    /\ pc[t] = "cb_lock"
    /\ storage_lock = Free
    /\ IF ctx[t] = G
       THEN /\ blk' = [blk EXCEPT ![t] = NewBlockOn(GenesisParentNumber, ctx[t])]
            /\ pc' = [pc EXCEPT ![t] = "p_lock"]
            /\ UNCHANGED <<storage_lock, res, log>>
       ELSE \/ \* get_block_by_hash(..)? is Err: create_block returns Err(Storage)
               /\ res' = [res EXCEPT ![t] = OnCreateError(ctx[t], "Storage")]
               /\ log' = [log EXCEPT ![t] = Append(@, Ev("get", ctx[t], "err"))]
               /\ pc' = [pc EXCEPT ![t] = "done"]
               /\ UNCHANGED <<storage_lock, blk>>
            \/ \* Some(parent)
               \E parent \in get_block_by_hash(store, ctx[t]) :
                 /\ blk' = [blk EXCEPT ![t] = NewBlockOn(parent.number, ctx[t])]
                 /\ log' = [log EXCEPT ![t] = Append(@, Ev("get", ctx[t], "some"))]
                 /\ pc' = [pc EXCEPT ![t] = "p_lock"]
                 /\ UNCHANGED <<storage_lock, res>>
            \/ \* None: keep the storage guard and go for the relay
               /\ get_block_by_hash(store, ctx[t]) = {}
               /\ storage_lock' = t
               /\ log' = [log EXCEPT ![t] = Append(@, Ev("get", ctx[t], "none"))]
               /\ pc' = [pc EXCEPT ![t] = "cb_relay"]
               /\ UNCHANGED <<blk, res>>
    /\ UNCHANGED <<store, latest_hash, relay_lock, now, relay_storage_lock, beaconVars, kind, ctx, payload, par>>

\* create_block: self.relay.lock().await
CreateBlockRelay(t) ==
    /\ pc[t] = "cb_relay"
    /\ relay_lock = Free
    /\ relay_lock' = t
    /\ pc' = [pc EXCEPT ![t] = "cb_req"]
    /\ UNCHANGED <<store, latest_hash, storage_lock, now, relay_storage_lock, beaconVars,
                   kind, ctx, payload, blk, par, res, log>>

\* create_block: relay.request_block(&parent_hash).await?; Err(MissingParent)
CreateBlockRequest(t) ==
    /\ pc[t] = "cb_req"
    /\ \E sent \in request_block :
         /\ log' = [log EXCEPT ![t] = Append(@, Ev("request", ctx[t], Outcome(sent)))]
         /\ res' = [res EXCEPT ![t] =
                OnCreateError(ctx[t], IF sent THEN "MissingParent" ELSE "Relay")]
    /\ relay_lock' = Free
    /\ storage_lock' = Free
    /\ pc' = [pc EXCEPT ![t] = "done"]
    /\ UNCHANGED <<store, latest_hash, now, relay_storage_lock, beaconVars, kind, ctx, payload, blk, par>>

\* propose, Ok(block) arm: this.storage.lock().await and put_block
ProposePut(t) ==
    /\ pc[t] = "p_lock"
    /\ storage_lock = Free
    /\ \E o \in put_block(store, blk[t]) :
         /\ store' = o[2]
         /\ log' = [log EXCEPT ![t] = Append(@, Ev("put", blk[t].hash, Outcome(o[1])))]
         /\ IF o[1]
            THEN /\ storage_lock' = t
                 /\ pc' = [pc EXCEPT ![t] = "p_relay"]
                 /\ UNCHANGED res
            ELSE /\ res' = [res EXCEPT ![t] = Dropped("Storage")]
                 /\ pc' = [pc EXCEPT ![t] = "done"]
                 /\ UNCHANGED storage_lock
    /\ UNCHANGED <<latest_hash, relay_lock, now, relay_storage_lock, beaconVars, kind, ctx, payload, blk, par>>

\* propose: this.relay.lock().await
ProposeRelay(t) ==
    /\ pc[t] = "p_relay"
    /\ relay_lock = Free
    /\ relay_lock' = t
    /\ pc' = [pc EXCEPT ![t] = "p_bcast"]
    /\ UNCHANGED <<store, latest_hash, storage_lock, now, relay_storage_lock, beaconVars,
                   kind, ctx, payload, blk, par, res, log>>

\* propose with the result of broadcast_block ignored
ProposeBroadcast_IgnoreFailure(t) ==
    /\ pc[t] = "p_bcast"
    /\ \E sent \in broadcast_block :
         log' = [log EXCEPT ![t] = Append(@, Ev("broadcast", blk[t].hash, Outcome(sent)))]
    /\ pc' = [pc EXCEPT ![t] = "p_cache"]
    /\ UNCHANGED <<store, latest_hash, storage_lock, relay_lock, now, relay_storage_lock, beaconVars,
                   kind, ctx, payload, blk, par, res>>

\* propose: broadcast_block(block.clone()).await
ProposeBroadcast(t) ==
    /\ pc[t] = "p_bcast"
    /\ \E sent \in broadcast_block :
         /\ log' = [log EXCEPT ![t] = Append(@, Ev("broadcast", blk[t].hash, Outcome(sent)))]
         /\ IF sent
            THEN /\ pc' = [pc EXCEPT ![t] = "p_cache"]
                 /\ UNCHANGED <<storage_lock, relay_lock, res>>
            ELSE /\ res' = [res EXCEPT ![t] = Dropped("Relay")]
                 /\ relay_lock' = Free
                 /\ storage_lock' = Free
                 /\ pc' = [pc EXCEPT ![t] = "done"]
    /\ UNCHANGED <<store, latest_hash, now, relay_storage_lock, beaconVars, kind, ctx, payload, blk, par>>

\* propose: *latest_hash.lock().await = block.hash; tx.send(block.hash)
ProposeCache(t) ==
    /\ pc[t] = "p_cache"
    /\ latest_hash' = blk[t].hash
    /\ log' = [log EXCEPT ![t] = Append(@, Ev("cache", blk[t].hash, "ok"))]
    /\ res' = [res EXCEPT ![t] = DeliveredHash(blk[t].hash, "Ok")]
    /\ relay_lock' = Free
    /\ storage_lock' = Free
    /\ pc' = [pc EXCEPT ![t] = "done"]
    /\ UNCHANGED <<store, now, relay_storage_lock, beaconVars, kind, ctx, payload, blk, par>>

Propose(t) ==
    \/ \E h \in ProposeParents : StartPropose(t, h)
    \/ CreateBlockLock(t)
    \/ CreateBlockRelay(t)
    \/ CreateBlockRequest(t)
    \/ ProposePut(t)
    \/ ProposeRelay(t)
    \/ ProposeBroadcast(t)
    \/ ProposeCache(t)

(***************************************************************************)
(* Proposer::validate_block (proposer.rs).  It is called by verify, and    *)
(* directly by the module's tests (test_block_validation).  A task is at   *)
(* "vb_lock" while it waits in validate_block's self.storage.lock().await. *)
(***************************************************************************)

\* the blocks a direct caller hands to validate_block together with
\* expected_parent: any number and timestamp of the model, the expected
\* parent or another digest as parent_hash, the right hash or a wrong one
Candidates(expected_parent) ==
    UNION { { b, [b EXCEPT !.hash = Zero] } :
            b \in { Block_new(n, p, ts) : n \in 0..MaxHeight,
                                          p \in {expected_parent, Absent},
                                          ts \in 1..MaxTime } }

\* validate_block's first check: Err(InvalidParentHash) before any lock
ParentHashMismatch(b, expected_parent) == b.parent_hash # expected_parent

\* what the caller of validate_block does with its Result e: verify sends
\* is_ok() on its oneshot channel, a direct caller gets the Result itself
AfterValidate(t, e) ==
    IF kind[t] = "verify" THEN DeliveredBool(e = "Ok", e) ELSE Verdict(e)

\* The direct callers (the tests) await one call before they make the next.
StartValidate(t, b, expected_parent) ==
    /\ pc[t] = "idle"
    /\ \A u \in Tasks : kind[u] # "validate"
    /\ kind' = [kind EXCEPT ![t] = "validate"]
    /\ ctx' = [ctx EXCEPT ![t] = expected_parent]
    /\ blk' = [blk EXCEPT ![t] = b]
    /\ IF ParentHashMismatch(b, expected_parent)
       THEN /\ res' = [res EXCEPT ![t] = Verdict("InvalidParentHash")]
            /\ pc' = [pc EXCEPT ![t] = "done"]
       ELSE /\ pc' = [pc EXCEPT ![t] = "vb_lock"]
            /\ UNCHANGED res
    /\ UNCHANGED <<store, latest_hash, storage_lock, relay_lock, now, relay_storage_lock, beaconVars, payload, par, log>>

\* validate_block: self.storage.lock().await, the parent lookup, and
\* block.validate(parent.as_ref()).  The guards a verify task holds on
\* return are those of its caller, released as verify's task ends.
ValidateBlockLock(t) ==
    /\ pc[t] = "vb_lock"
    /\ storage_lock = Free
    /\ IF ctx[t] = G
       THEN /\ res' = [res EXCEPT ![t] = AfterValidate(t, Block_validate(blk[t], FALSE, NoBlock))]
            /\ pc' = [pc EXCEPT ![t] = "done"]
            /\ UNCHANGED <<storage_lock, par, log>>
       ELSE \/ \* get_block_by_hash(..)? is Err
               /\ res' = [res EXCEPT ![t] = AfterValidate(t, "Storage")]
               /\ log' = [log EXCEPT ![t] = Append(@, Ev("get", ctx[t], "err"))]
               /\ pc' = [pc EXCEPT ![t] = "done"]
               /\ UNCHANGED <<storage_lock, par>>
            \/ \* Some(parent)
               \E parent \in get_block_by_hash(store, ctx[t]) :
                 /\ res' = [res EXCEPT ![t] = AfterValidate(t, Block_validate(blk[t], TRUE, parent))]
                 /\ log' = [log EXCEPT ![t] = Append(@, Ev("get", ctx[t], "some"))]
                 /\ par' = [par EXCEPT ![t] = parent]
                 /\ pc' = [pc EXCEPT ![t] = "done"]
                 /\ UNCHANGED storage_lock
            \/ \* None: keep the storage guard and go for the relay
               /\ get_block_by_hash(store, ctx[t]) = {}
               /\ storage_lock' = t
               /\ log' = [log EXCEPT ![t] = Append(@, Ev("get", ctx[t], "none"))]
               /\ pc' = [pc EXCEPT ![t] = "vb_relay"]
               /\ UNCHANGED <<par, res>>
    /\ UNCHANGED <<store, latest_hash, relay_lock, now, relay_storage_lock, beaconVars, kind, ctx, payload, blk>>

\* validate_block: self.relay.lock().await
ValidateBlockRelay(t) ==
    /\ pc[t] = "vb_relay"
    /\ relay_lock = Free
    /\ relay_lock' = t
    /\ pc' = [pc EXCEPT ![t] = "vb_req"]
    /\ UNCHANGED <<store, latest_hash, storage_lock, now, relay_storage_lock, beaconVars,
                   kind, ctx, payload, blk, par, res, log>>

\* validate_block: relay.request_block(&expected_parent).await?; Err(MissingParent)
ValidateBlockRequest(t) ==
    /\ pc[t] = "vb_req"
    /\ \E sent \in request_block :
         /\ log' = [log EXCEPT ![t] = Append(@, Ev("request", ctx[t], Outcome(sent)))]
         /\ res' = [res EXCEPT ![t] =
                AfterValidate(t, IF sent THEN "MissingParent" ELSE "Relay")]
    /\ relay_lock' = Free
    /\ storage_lock' = Free
    /\ pc' = [pc EXCEPT ![t] = "done"]
    /\ UNCHANGED <<store, latest_hash, now, relay_storage_lock, beaconVars, kind, ctx, payload, blk, par>>

Validate(t) ==
    \/ \E h \in CallHashes : \E b \in Candidates(h) : StartValidate(t, b, h)
    \/ ValidateBlockLock(t)
    \/ ValidateBlockRelay(t)
    \/ ValidateBlockRequest(t)

(***************************************************************************)
(* Proposer::verify (proposer.rs).                                         *)
(***************************************************************************)
\* the digests verify is asked about
VerifyPayloads == {Absent} \cup {b.hash : b \in store}

StartVerify(t, parent_hash, h) ==
    /\ pc[t] = "idle"
    /\ kind' = [kind EXCEPT ![t] = "verify"]
    /\ ctx' = [ctx EXCEPT ![t] = parent_hash]
    /\ payload' = [payload EXCEPT ![t] = h]
    /\ pc' = [pc EXCEPT ![t] = "v_lock"]
    /\ UNCHANGED <<store, latest_hash, storage_lock, relay_lock, now, relay_storage_lock, beaconVars, blk, par, res, log>>

\* verify: this.storage.lock().await and the lookup of the payload.  The
\* guard lives to the end of the task.  With the block found, the task
\* calls validate_block, whose parent-hash check returns at once on a
\* mismatch and which otherwise locks this.storage again.
VerifyLock(t) ==
    /\ pc[t] = "v_lock"
    /\ storage_lock = Free
    /\ \/ \* Ok(Some(block))
          \E b \in get_block_by_hash(store, payload[t]) :
            /\ blk' = [blk EXCEPT ![t] = b]
            /\ log' = [log EXCEPT ![t] = Append(@, Ev("get", payload[t], "some"))]
            /\ IF ParentHashMismatch(b, ctx[t])
               THEN /\ res' = [res EXCEPT ![t] = AfterValidate(t, "InvalidParentHash")]
                    /\ pc' = [pc EXCEPT ![t] = "done"]
                    /\ UNCHANGED storage_lock
               ELSE /\ storage_lock' = t
                    /\ pc' = [pc EXCEPT ![t] = "vb_lock"]
                    /\ UNCHANGED res
       \/ \* Ok(None)
          /\ get_block_by_hash(store, payload[t]) = {}
          /\ log' = [log EXCEPT ![t] = Append(@, Ev("get", payload[t], "none"))]
          /\ storage_lock' = t
          /\ pc' = [pc EXCEPT ![t] = "v_relay"]
          /\ UNCHANGED <<blk, res>>
       \/ \* Err(_)
          /\ log' = [log EXCEPT ![t] = Append(@, Ev("get", payload[t], "err"))]
          /\ storage_lock' = t
          /\ pc' = [pc EXCEPT ![t] = "v_relay"]
          /\ UNCHANGED <<blk, res>>
    /\ UNCHANGED <<store, latest_hash, relay_lock, now, relay_storage_lock, beaconVars, kind, ctx, payload, par>>

\* verify: this.relay.lock().await
VerifyRelay(t) ==
    /\ pc[t] = "v_relay"
    /\ relay_lock = Free
    /\ relay_lock' = t
    /\ pc' = [pc EXCEPT ![t] = "v_req"]
    /\ UNCHANGED <<store, latest_hash, storage_lock, now, relay_storage_lock, beaconVars,
                   kind, ctx, payload, blk, par, res, log>>

\* verify's else branch without the request_block call
VerifyRequest_NoRequest(t) ==
    /\ pc[t] = "v_req"
    /\ res' = [res EXCEPT ![t] = DeliveredBool(FALSE, "NotFound")]
    /\ relay_lock' = Free
    /\ storage_lock' = Free
    /\ pc' = [pc EXCEPT ![t] = "done"]
    /\ UNCHANGED <<store, latest_hash, now, relay_storage_lock, beaconVars, kind, ctx, payload, blk, par, log>>

\* verify: let _ = relay.request_block(&payload).await; false; tx.send(is_valid)
VerifyRequest(t) ==
    /\ pc[t] = "v_req"
    /\ \E sent \in request_block :
         log' = [log EXCEPT ![t] = Append(@, Ev("request", payload[t], Outcome(sent)))]
    /\ res' = [res EXCEPT ![t] = DeliveredBool(FALSE, "NotFound")]
    /\ relay_lock' = Free
    /\ storage_lock' = Free
    /\ pc' = [pc EXCEPT ![t] = "done"]
    /\ UNCHANGED <<store, latest_hash, now, relay_storage_lock, beaconVars, kind, ctx, payload, blk, par>>

Verify(t) ==
    \/ \E p \in CallHashes : \E h \in VerifyPayloads : StartVerify(t, p, h)
    \/ VerifyLock(t)
    \/ VerifyRelay(t)
    \/ VerifyRequest(t)

(***************************************************************************)
(* Proposer::committed (proposer.rs).                                      *)
(***************************************************************************)
\* committed: hash.copy_from_slice(&payload[..32]);
\* *self.latest_hash.lock().await = hash
StartCommitted(t, p) ==
    /\ pc[t] = "idle"
    /\ kind' = [kind EXCEPT ![t] = "committed"]
    /\ IF SliceOutOfRange(p)
       THEN /\ res' = [res EXCEPT ![t] = Panicked]
            /\ pc' = [pc EXCEPT ![t] = "done"]
            /\ UNCHANGED <<payload, latest_hash, log>>
       ELSE /\ payload' = [payload EXCEPT ![t] = p.head]
            /\ latest_hash' = p.head
            /\ log' = [log EXCEPT ![t] = Append(@, Ev("cache", p.head, "ok"))]
            /\ pc' = [pc EXCEPT ![t] = "c_lock"]
            /\ UNCHANGED res
    /\ UNCHANGED <<store, storage_lock, relay_lock, now, relay_storage_lock, beaconVars, ctx, blk, par>>

\* committed: self.storage.lock().await.get_block_by_hash(&hash).await
CommittedLock(t) ==
    /\ pc[t] = "c_lock"
    /\ storage_lock = Free
    /\ \/ \* Ok(Some(block)): the guard lives through the if-let body
          \E b \in get_block_by_hash(store, payload[t]) :
            /\ blk' = [blk EXCEPT ![t] = b]
            /\ log' = [log EXCEPT ![t] = Append(@, Ev("get", payload[t], "some"))]
            /\ storage_lock' = t
            /\ pc' = [pc EXCEPT ![t] = "c_relay"]
            /\ UNCHANGED res
       \/ \* Ok(None)
          /\ get_block_by_hash(store, payload[t]) = {}
          /\ log' = [log EXCEPT ![t] = Append(@, Ev("get", payload[t], "none"))]
          /\ res' = [res EXCEPT ![t] = Returned]
          /\ pc' = [pc EXCEPT ![t] = "done"]
          /\ UNCHANGED <<blk, storage_lock>>
       \/ \* Err(_)
          /\ log' = [log EXCEPT ![t] = Append(@, Ev("get", payload[t], "err"))]
          /\ res' = [res EXCEPT ![t] = Returned]
          /\ pc' = [pc EXCEPT ![t] = "done"]
          /\ UNCHANGED <<blk, storage_lock>>
    /\ UNCHANGED <<store, latest_hash, relay_lock, now, relay_storage_lock, beaconVars, kind, ctx, payload, par>>

\* committed: self.relay.lock().await
CommittedRelay(t) ==
    /\ pc[t] = "c_relay"
    /\ relay_lock = Free
    /\ relay_lock' = t
    /\ pc' = [pc EXCEPT ![t] = "c_send"]
    /\ UNCHANGED <<store, latest_hash, storage_lock, now, relay_storage_lock, beaconVars,
                   kind, ctx, payload, blk, par, res, log>>

\* committed: let _ = send_to(Recipients::All, NewBlock(block)).await
CommittedSend(t) ==
    /\ pc[t] = "c_send"
    /\ \E sent \in send_to :
         log' = [log EXCEPT ![t] = Append(@, Ev("broadcast", blk[t].hash, Outcome(sent)))]
    /\ res' = [res EXCEPT ![t] = Returned]
    /\ relay_lock' = Free
    /\ storage_lock' = Free
    /\ pc' = [pc EXCEPT ![t] = "done"]
    /\ UNCHANGED <<store, latest_hash, now, relay_storage_lock, beaconVars, kind, ctx, payload, blk, par>>

Committed(t) ==
    \/ \E p \in Slices(VerifyPayloads) : StartCommitted(t, p)
    \/ CommittedLock(t)
    \/ CommittedRelay(t)
    \/ CommittedSend(t)

(***************************************************************************)
(* The engine's calls on one Proposer: propose, verify and committed in    *)
(* any interleaving.                                                       *)
(***************************************************************************)
Next ==
    \/ Tick
    \/ \E t \in Tasks : Retire(t)
    \/ \E t \in Tasks : Genesis(t)
    \/ \E t \in Tasks : Propose(t)
    \/ \E t \in Tasks : Verify(t)
    \/ \E t \in Tasks : Committed(t)

Spec == Init /\ [][Next]_vars

\* a step of a call in progress
Step(t) ==
    \/ CreateBlockLock(t) \/ CreateBlockRelay(t) \/ CreateBlockRequest(t)
    \/ ProposePut(t) \/ ProposeRelay(t) \/ ProposeBroadcast(t) \/ ProposeCache(t)
    \/ VerifyLock(t) \/ VerifyRelay(t) \/ VerifyRequest(t)
    \/ ValidateBlockLock(t) \/ ValidateBlockRelay(t) \/ ValidateBlockRequest(t)
    \/ CommittedLock(t) \/ CommittedRelay(t) \/ CommittedSend(t)

\* tokio polls every task that can run, and its Mutex hands the lock to
\* the waiters in FIFO order: a task whose next step is possible again
\* and again takes it.
FairSpec == Spec /\ \A t \in Tasks : SF_vars(Step(t))

(***************************************************************************)
(* validate_block called directly, as the tests call it, on a store that   *)
(* propose fills.                                                          *)
(***************************************************************************)
NextValidate ==
    \/ Tick
    \/ \E t \in Tasks : Retire(t)
    \/ \E t \in Tasks : Propose(t)
    \/ \E t \in Tasks : Validate(t)

SpecValidate == Init /\ [][NextValidate]_vars


(***************************************************************************)
(* BlockStorage called directly (storage.rs), one call at a time, as       *)
(* test_block_storage does.  The call and what it returned are kept in     *)
(* res[t]: the argument, Ok or Err, and the value.                         *)
(***************************************************************************)
Answer(tag, arg, val) == [tag |-> tag, arg |-> arg, val |-> val]

\* the heights direct callers use
StoreHeights == 0..MaxGapHeight \cup {SectionSize - 1, SectionSize}

\* the blocks direct callers put: one well-formed block per height, and at
\* the two lowest heights also a block whose hash field is not its digest
StoreBlocks ==
    {Block_new(n, G, 1) : n \in StoreHeights}
        \cup {[Block_new(n, G, 1) EXCEPT !.hash = Zero] : n \in 0..1}

\* a direct call is made when no other call is in progress or unread
StoreCall(t, k) ==
    /\ \A u \in Tasks : pc[u] = "idle"
    /\ kind' = [kind EXCEPT ![t] = k]
    /\ pc' = [pc EXCEPT ![t] = "done"]
    /\ UNCHANGED <<latest_hash, storage_lock, relay_lock, now, relay_storage_lock, beaconVars,
                   ctx, payload, blk, par, log>>

StorePut(t, b) ==
    /\ StoreCall(t, "put_block")
    /\ \E o \in put_block(store, b) :
         /\ store' = o[2]
         /\ res' = [res EXCEPT ![t] = Answer(IF o[1] THEN "Ok" ELSE "Err", b, {})]

StoreGetByNumber(t, n) ==
    /\ StoreCall(t, "get_block_by_number")
    /\ \/ res' = [res EXCEPT ![t] = Answer("Err", n, {})]
       \/ \E b \in get_block_by_number(store, n) :
            res' = [res EXCEPT ![t] = Answer("Ok", n, {b})]
       \/ /\ get_block_by_number(store, n) = {}
          /\ res' = [res EXCEPT ![t] = Answer("Ok", n, {})]
    /\ UNCHANGED store

StoreGetByHash(t, h) ==
    /\ StoreCall(t, "get_block_by_hash")
    /\ \/ res' = [res EXCEPT ![t] = Answer("Err", h, {})]
       \/ \E b \in get_block_by_hash(store, h) :
            res' = [res EXCEPT ![t] = Answer("Ok", h, {b})]
       \/ /\ get_block_by_hash(store, h) = {}
          /\ res' = [res EXCEPT ![t] = Answer("Ok", h, {})]
    /\ UNCHANGED store

StoreHas(t, n) ==
    /\ StoreCall(t, "has_block")
    /\ \/ res' = [res EXCEPT ![t] = Answer("Err", n, FALSE)]
       \/ res' = [res EXCEPT ![t] = Answer("Ok", n, has_block(store, n))]
    /\ UNCHANGED store

StoreNextGap(t, n) ==
    /\ StoreCall(t, "next_gap")
    /\ res' = [res EXCEPT ![t] = Answer("Ok", n, next_gap(store, n))]
    /\ UNCHANGED store

\* prune returns (); the value kept for it is the set of heights it dropped
StorePrune(t, min) ==
    /\ StoreCall(t, "prune")
    /\ \E o \in prune(store, min) :
         /\ store' = o[2]
         /\ res' = [res EXCEPT ![t] = Answer(IF o[1] THEN "Ok" ELSE "Err", min,
                                             Heights(store) \ Heights(o[2]))]

Storage(t) ==
    \/ \E b \in StoreBlocks : StorePut(t, b)
    \/ \E n \in StoreHeights : StoreGetByNumber(t, n)
    \/ \E b \in StoreBlocks : StoreGetByHash(t, b.hash)
    \/ \E n \in StoreHeights : StoreHas(t, n)
    \/ \E n \in StoreHeights : StoreNextGap(t, n)
    \/ \E n \in StoreHeights \cup {SectionSize + 1} : StorePrune(t, n)

NextStore ==
    \/ \E t \in Tasks : Retire(t)
    \/ \E t \in Tasks : Storage(t)

SpecStore == Init /\ [][NextStore]_vars

(***************************************************************************)
(* ConsensusRelay::handle_message for the block messages and               *)
(* Relay::broadcast (relay.rs), on the node whose Proposer runs propose.   *)
(* The relay keeps its own mutex around its BlockStorage handle.           *)
(***************************************************************************)
\* the peers a message can come from (public keys)
Peers == {<<11>>, <<12>>}

\* Recipients::All
All == <<255>>

\* Recipients::Single(sender)
Single(sender) == sender

\* one message handed to the transport: its variant, the hash of the block
\* it carries, its recipients and the outcome of the send
Sent(msg, h, to, out) == [op |-> msg, hash |-> h, to |-> to, out |-> out]

\* the archive behind the relay's BlockStorage handle, a clone of the
\* handle the Proposer was built from
relay_storage == store

\* the blocks a peer can send: built by Block::new, or with another hash
\* field than the one its contents give
RelayBlocks ==
    UNION { { b, [b EXCEPT !.hash = Zero] } :
            b \in { Block_new(n, G, 1) : n \in 0..1 } }

\* the hashes a peer can ask for
RequestHashes == {Absent} \cup {b.hash : b \in relay_storage}

\* handle_message(BlockRequest(hash), sender)
StartBlockRequest(t, hash, sender) ==
    /\ pc[t] = "idle"
    /\ kind' = [kind EXCEPT ![t] = "BlockRequest"]
    /\ ctx' = [ctx EXCEPT ![t] = sender]
    /\ payload' = [payload EXCEPT ![t] = hash]
    /\ pc' = [pc EXCEPT ![t] = "hr_lock"]
    /\ UNCHANGED <<store, latest_hash, storage_lock, relay_lock, now, relay_storage_lock, beaconVars,
                   blk, par, res, log>>

\* BlockRequest: self.storage.lock().await;
\* storage.get_block_by_hash(&hash[..32].try_into().unwrap()).await
BlockRequestLock(t) ==
    /\ pc[t] = "hr_lock"
    /\ relay_storage_lock = Free
    /\ IF SliceOutOfRange(payload[t])
       THEN \* hash[..32] panics; unwinding drops the guard
            /\ res' = [res EXCEPT ![t] = Panicked]
            /\ pc' = [pc EXCEPT ![t] = "done"]
            /\ UNCHANGED <<payload, blk, log, relay_storage_lock>>
       ELSE /\ payload' = [payload EXCEPT ![t] = payload[t].head]
            /\ \/ \* Ok(Some(block)): the guard lives to the end of the arm
                  \E b \in get_block_by_hash(relay_storage, payload[t].head) :
                    /\ blk' = [blk EXCEPT ![t] = b]
                    /\ log' = [log EXCEPT ![t] =
                                   Append(@, Ev("get", payload[t].head, "some"))]
                    /\ relay_storage_lock' = t
                    /\ pc' = [pc EXCEPT ![t] = "hr_send"]
                    /\ UNCHANGED res
               \/ \* Ok(None)
                  /\ get_block_by_hash(relay_storage, payload[t].head) = {}
                  /\ log' = [log EXCEPT ![t] =
                                 Append(@, Ev("get", payload[t].head, "none"))]
                  /\ res' = [res EXCEPT ![t] = Verdict("Ok")]
                  /\ pc' = [pc EXCEPT ![t] = "done"]
                  /\ UNCHANGED <<blk, relay_storage_lock>>
               \/ \* Err(_)
                  /\ log' = [log EXCEPT ![t] =
                                 Append(@, Ev("get", payload[t].head, "err"))]
                  /\ res' = [res EXCEPT ![t] = Verdict("Ok")]
                  /\ pc' = [pc EXCEPT ![t] = "done"]
                  /\ UNCHANGED <<blk, relay_storage_lock>>
    /\ UNCHANGED <<store, latest_hash, storage_lock, relay_lock, now, beaconVars, kind, ctx, par>>

\* BlockRequest with every peer as recipient
BlockRequestSend_ToAll(t) ==
    /\ pc[t] = "hr_send"
    /\ \E sent \in send_to :
         /\ log' = [log EXCEPT ![t] =
                        Append(@, Sent("BlockResponse", blk[t].hash, All,
                                       Outcome(sent)))]
         /\ res' = [res EXCEPT ![t] = Verdict(IF sent THEN "Ok" ELSE "Network")]
    /\ relay_storage_lock' = Free
    /\ pc' = [pc EXCEPT ![t] = "done"]
    /\ UNCHANGED <<store, latest_hash, storage_lock, relay_lock, now, beaconVars,
                   kind, ctx, payload, blk, par>>

\* BlockRequest: self.send_to(Recipients::Single(Bytes::from(sender)),
\* ConsensusMessage::BlockResponse(block)).await?
BlockRequestSend(t) ==
    /\ pc[t] = "hr_send"
    /\ \E sent \in send_to :
         /\ log' = [log EXCEPT ![t] =
                        Append(@, Sent("BlockResponse", blk[t].hash, Single(ctx[t]),
                                       Outcome(sent)))]
         /\ res' = [res EXCEPT ![t] = Verdict(IF sent THEN "Ok" ELSE "Network")]
    /\ relay_storage_lock' = Free
    /\ pc' = [pc EXCEPT ![t] = "done"]
    /\ UNCHANGED <<store, latest_hash, storage_lock, relay_lock, now, beaconVars,
                   kind, ctx, payload, blk, par>>

\* handle_message(BlockResponse(block), sender) and
\* handle_message(NewBlock(block), sender)
StartBlockMessage(t, msg, block, sender) ==
    /\ pc[t] = "idle"
    /\ kind' = [kind EXCEPT ![t] = msg]
    /\ ctx' = [ctx EXCEPT ![t] = sender]
    /\ blk' = [blk EXCEPT ![t] = block]
    /\ pc' = [pc EXCEPT ![t] = "hm_lock"]
    /\ UNCHANGED <<store, latest_hash, storage_lock, relay_lock, now, relay_storage_lock, beaconVars,
                   payload, par, res, log>>

\* BlockResponse, NewBlock: self.storage.lock().await;
\* storage.put_block(block).await.map_err(|_| RelayError::StorageError)?
BlockMessagePut(t) ==
    /\ pc[t] = "hm_lock"
    /\ relay_storage_lock = Free
    /\ \E o \in put_block(relay_storage, blk[t]) :
         /\ store' = o[2]
         /\ log' = [log EXCEPT ![t] = Append(@, Ev("put", blk[t].hash, Outcome(o[1])))]
         /\ res' = [res EXCEPT ![t] = Verdict(IF o[1] THEN "Ok" ELSE "StorageError")]
    /\ pc' = [pc EXCEPT ![t] = "done"]
    /\ UNCHANGED <<latest_hash, storage_lock, relay_lock, now, relay_storage_lock, beaconVars,
                   kind, ctx, payload, blk, par>>

HandleMessage(t) ==
    \/ \E hash \in Slices(RequestHashes), sender \in Peers :
         StartBlockRequest(t, hash, sender)
    \/ BlockRequestLock(t)
    \/ BlockRequestSend(t)
    \/ \E msg \in {"BlockResponse", "NewBlock"}, block \in RelayBlocks, sender \in Peers :
         StartBlockMessage(t, msg, block, sender)
    \/ BlockMessagePut(t)

\* Relay::broadcast: hash.copy_from_slice(&payload[..32])
StartBroadcast(t, p) ==
    /\ pc[t] = "idle"
    /\ kind' = [kind EXCEPT ![t] = "broadcast"]
    /\ IF SliceOutOfRange(p)
       THEN /\ res' = [res EXCEPT ![t] = Panicked]
            /\ pc' = [pc EXCEPT ![t] = "done"]
            /\ UNCHANGED payload
       ELSE /\ payload' = [payload EXCEPT ![t] = p.head]
            /\ pc' = [pc EXCEPT ![t] = "b_lock"]
            /\ UNCHANGED res
    /\ UNCHANGED <<store, latest_hash, storage_lock, relay_lock, now, relay_storage_lock, beaconVars,
                   ctx, blk, par, log>>

\* Relay::broadcast going on to broadcast_block whatever the lookup gave
BroadcastLock_Always(t) ==
    /\ pc[t] = "b_lock"
    /\ relay_storage_lock = Free
    /\ \/ \E b \in get_block_by_hash(relay_storage, payload[t]) :
            /\ blk' = [blk EXCEPT ![t] = b]
            /\ log' = [log EXCEPT ![t] = Append(@, Ev("get", payload[t], "some"))]
       \/ /\ get_block_by_hash(relay_storage, payload[t]) = {}
          /\ log' = [log EXCEPT ![t] = Append(@, Ev("get", payload[t], "none"))]
          /\ UNCHANGED blk
    /\ relay_storage_lock' = t
    /\ pc' = [pc EXCEPT ![t] = "b_send"]
    /\ UNCHANGED <<store, latest_hash, storage_lock, relay_lock, now, beaconVars, kind, ctx,
                   payload, par, res>>

\* Relay::broadcast: if let Ok(Some(block)) =
\* self.storage.lock().await.get_block_by_hash(&hash).await
BroadcastLock(t) ==
    /\ pc[t] = "b_lock"
    /\ relay_storage_lock = Free
    /\ \/ \* Ok(Some(block)): the guard lives through the if-let body
          \E b \in get_block_by_hash(relay_storage, payload[t]) :
            /\ blk' = [blk EXCEPT ![t] = b]
            /\ log' = [log EXCEPT ![t] = Append(@, Ev("get", payload[t], "some"))]
            /\ relay_storage_lock' = t
            /\ pc' = [pc EXCEPT ![t] = "b_send"]
            /\ UNCHANGED res
       \/ \* Ok(None)
          /\ get_block_by_hash(relay_storage, payload[t]) = {}
          /\ log' = [log EXCEPT ![t] = Append(@, Ev("get", payload[t], "none"))]
          /\ res' = [res EXCEPT ![t] = Returned]
          /\ pc' = [pc EXCEPT ![t] = "done"]
          /\ UNCHANGED <<blk, relay_storage_lock>>
       \/ \* Err(_)
          /\ log' = [log EXCEPT ![t] = Append(@, Ev("get", payload[t], "err"))]
          /\ res' = [res EXCEPT ![t] = Returned]
          /\ pc' = [pc EXCEPT ![t] = "done"]
          /\ UNCHANGED <<blk, relay_storage_lock>>
    /\ UNCHANGED <<store, latest_hash, storage_lock, relay_lock, now, beaconVars, kind, ctx,
                   payload, par>>

\* Relay::broadcast: let _ = self.broadcast_block(block).await
BroadcastSend(t) ==
    /\ pc[t] = "b_send"
    /\ \E sent \in broadcast_block :
         log' = [log EXCEPT ![t] =
                     Append(@, Sent("NewBlock", blk[t].hash, All, Outcome(sent)))]
    /\ res' = [res EXCEPT ![t] = Returned]
    /\ relay_storage_lock' = Free
    /\ pc' = [pc EXCEPT ![t] = "done"]
    /\ UNCHANGED <<store, latest_hash, storage_lock, relay_lock, now, beaconVars,
                   kind, ctx, payload, blk, par>>

Broadcast(t) ==
    \/ \E p \in Slices(RequestHashes) : StartBroadcast(t, p)
    \/ BroadcastLock(t)
    \/ BroadcastSend(t)

\* The node's relay serving its peers and the engine while the Proposer
\* proposes (none of the handlers reads the clock).
NextRelay ==
    \/ \E t \in Tasks : Retire(t)
    \/ \E t \in Tasks : Propose(t)
    \/ \E t \in Tasks : HandleMessage(t)
    \/ \E t \in Tasks : Broadcast(t)

SpecRelay == Init /\ [][NextRelay]_vars

(***************************************************************************)
(* BeaconConsensus (beacon.rs) and the validator messages of               *)
(* ConsensusRelay::handle_message (relay.rs).  The Mutex guards make each  *)
(* of register_validator, remove_validator, next_active_region,            *)
(* get_region_validators and get_all_validators one step; leader takes     *)
(* the lock twice.                                                         *)
(***************************************************************************)
\* self.regions, in rotation order
RegionList == <<"A", "B", "C">>

Regions == {RegionList[i] : i \in 1..Len(RegionList)}

\* the region names a caller or a peer can pass
RegionNames == Regions \cup {"X"}

\* the public keys of validators
ValidatorKeys == Peers

\* a byte string that is no public key
MalformedKey == <<>>

\* Ed25519::from_public_key(&public_key) is Ok
from_public_key(public_key) == public_key # MalformedKey

\* the variables of the Proposer and the relay's block handlers
nodeVars ==
    <<store, latest_hash, storage_lock, relay_lock, now, relay_storage_lock, taskVars>>

\* self.regions.contains(&region)
contains(region) == region \in Regions

\* validators.get(region).cloned().unwrap_or_default()
get_region_validators(reg, region) ==
    IF region \in DOMAIN reg THEN reg[region] ELSE <<>>

\* no region has a validator
AllEmpty(reg) == \A r \in Regions : get_region_validators(reg, r) = <<>>

\* register_validator putting the validator at the front of the list
register_validator_Front(reg, region, validator) ==
    IF ~contains(region)
    THEN <<BErr("InvalidRegion"), reg>>
    ELSE <<BOk,
           [r \in DOMAIN reg \cup {region} |->
               IF r = region
               THEN <<validator>> \o get_region_validators(reg, region)
               ELSE reg[r]]>>

\* register_validator: <<result, registry after>>
register_validator(reg, region, validator) ==
    IF ~contains(region)
    THEN <<BErr("InvalidRegion"), reg>>
    ELSE <<BOk,
           [r \in DOMAIN reg \cup {region} |->
               IF r = region
               THEN Append(get_region_validators(reg, region), validator)
               ELSE reg[r]]>>

\* remove_validator dropping the last validator of the list
remove_validator_Last(reg, region, validator_key) ==
    IF region \in DOMAIN reg /\ reg[region] # <<>>
    THEN [reg EXCEPT ![region] = SubSeq(@, 1, Len(@) - 1)]
    ELSE reg

\* remove_validator: the registry after (the result is Ok(()))
remove_validator(reg, region, validator_key) ==
    IF region \in DOMAIN reg
    THEN [reg EXCEPT ![region] = SelectSeq(@, LAMBDA v : v # validator_key)]
    ELSE reg

\* next_active_region's loop taking every region for active
ActiveSteps_Any(reg, idx) == 0..(Len(RegionList) - 1)

\* the steps k of next_active_region's loop, from idx, that meet a region
\* with validators
ActiveSteps(reg, idx) ==
    {k \in 0..(Len(RegionList) - 1) :
        get_region_validators(reg, RegionList[((idx + k) % Len(RegionList)) + 1]) # <<>>}

\* the least element of a non-empty set of numbers
Min(S) == CHOOSE k \in S : \A j \in S : k <= j

\* next_active_region leaving idx on the region it returns
next_active_region_NoAdvance(reg, idx) ==
    IF ActiveSteps(reg, idx) = {}
    THEN <<"none", idx>>
    ELSE LET k == Min(ActiveSteps(reg, idx)) IN
         <<RegionList[((idx + k) % Len(RegionList)) + 1],
           (idx + k) % Len(RegionList)>>

\* next_active_region moving idx on by one when every region is empty
next_active_region_StepOnNone(reg, idx) ==
    IF ActiveSteps(reg, idx) = {}
    THEN <<"none", (idx + 1) % Len(RegionList)>>
    ELSE LET k == Min(ActiveSteps(reg, idx)) IN
         <<RegionList[((idx + k) % Len(RegionList)) + 1],
           (idx + k + 1) % Len(RegionList)>>

\* next_active_region: <<region or "none", current_region_idx after>>
next_active_region(reg, idx) ==
    IF ActiveSteps(reg, idx) = {}
    THEN <<"none", idx>>
    ELSE LET k == Min(ActiveSteps(reg, idx)) IN
         <<RegionList[((idx + k) % Len(RegionList)) + 1],
           (idx + k + 1) % Len(RegionList)>>

\* leader taking the validator after the one the view names
validator_idx_Next(view, len) == (view + 1) % len

\* leader: (view as usize) % validators.len()
validator_idx(view, len) == view % len

\* leader's second part on the list vs it read: None, or the validator
\* at validator_idx
select_leader(vs, view) ==
    IF vs = <<>> THEN BNone ELSE BSome(<<vs[validator_idx(view, Len(vs)) + 1]>>)

\* what leader(view) returns on a registry nobody changes meanwhile
leader(reg, idx, view) ==
    LET r == next_active_region(reg, idx) IN
    IF r[1] = "none" THEN BNone
    ELSE select_leader(get_region_validators(reg, r[1]), view)

\* the orders in which a HashMap can yield the keys S
Orders(S) ==
    {o \in [1..Cardinality(S) -> S] : \A i, j \in DOMAIN o : o[i] = o[j] => i = j}

RECURSIVE flat_map(_, _, _)
\* validators.values().flat_map(|v| v.iter().cloned()).collect(), the
\* values taken in order o from the i-th on
flat_map(reg, o, i) ==
    IF i > Cardinality(DOMAIN o) THEN <<>>
    ELSE reg[o[i]] \o flat_map(reg, o, i + 1)

\* get_all_validators: the vectors it can return
get_all_validators(reg) == {flat_map(reg, o, 1) : o \in Orders(DOMAIN reg)}

\* participants: the values it can return
participants(reg) ==
    {IF all = <<>> THEN BNone ELSE BSome(all) : all \in get_all_validators(reg)}

\* is_participant on the vector all that get_all_validators returned:
\* iter().position(|v| v == candidate).map(|i| i as u32)
is_participant(all, candidate) ==
    IF \E i \in 1..Len(all) : all[i] = candidate
    THEN BSome(<<Min({i \in 1..Len(all) : all[i] = candidate}) - 1>>)
    ELSE BNone

\* a finished call
Call(op, region, key, view, ret) ==
    [op |-> op, pc |-> "done", region |-> region, key |-> key, view |-> view,
     ret |-> ret, prev |-> "none", mutated |-> FALSE, allEmpty |-> FALSE]

\* what a registry write to reg2 means for a call c that goes on meanwhile
Touched(c, reg2) ==
    IF c.op = "leader" /\ c.pc = "pick"
    THEN [c EXCEPT !.mutated = @ \/ (reg2 # validators_by_region),
                   !.allEmpty = @ \/ AllEmpty(reg2)]
    ELSE c

\* a registry write that puts current_region_idx back to 0
Write_ResetCursor(t, c, reg2) ==
    /\ validators_by_region' = reg2
    /\ bcall' = [u \in BThreads |-> IF u = t THEN c ELSE Touched(bcall[u], reg2)]
    /\ last_region' = IF reg2 = validators_by_region THEN last_region ELSE "none"
    /\ current_region_idx' = 0
    /\ UNCHANGED nodeVars

\* thread t ends a call, with record c, that leaves the registry as reg2
Write(t, c, reg2) ==
    /\ validators_by_region' = reg2
    /\ bcall' = [u \in BThreads |-> IF u = t THEN c ELSE Touched(bcall[u], reg2)]
    /\ last_region' = IF reg2 = validators_by_region THEN last_region ELSE "none"
    /\ UNCHANGED <<current_region_idx, nodeVars>>

\* registering in region ends the time region has been vacated for
Refilled(region, ret) ==
    IF ret = BOk THEN {p \in vacated : p[1] # region} ELSE vacated

\* removing key from region vacates it when key was its only validator
Vacated(reg, region, key) ==
    LET vs == get_region_validators(reg, region) IN
    IF vs # <<>> /\ \A i \in 1..Len(vs) : vs[i] = key
    THEN vacated \cup {<<region, key>>}
    ELSE vacated

\* beacon.register_validator(region, validator)
RegisterValidator(t, region, validator) ==
    /\ bcall[t].pc = "idle"
    /\ Len(get_region_validators(validators_by_region, region)) < MaxList
    /\ LET o == register_validator(validators_by_region, region, validator) IN
       /\ Write(t, Call("register_validator", region, validator, 0, o[1]),
                o[2])
       /\ vacated' = Refilled(region, o[1])

\* beacon.remove_validator(region, validator_key)
RemoveValidator(t, region, validator_key) ==
    /\ bcall[t].pc = "idle"
    /\ Write(t, Call("remove_validator", region, validator_key, 0, BOk),
             remove_validator(validators_by_region, region, validator_key))
    /\ vacated' = Vacated(validators_by_region, region, validator_key)

\* handle_message, ValidatorAnnounce arm: from_public_key(..)
\* .map_err(|_| RelayError::InvalidMessage)?;
\* beacon.register_validator(region, validator); then Ok(())
HandleValidatorAnnounce(t, public_key, region) ==
    /\ bcall[t].pc = "idle"
    /\ Len(get_region_validators(validators_by_region, region)) < MaxList
    /\ IF ~from_public_key(public_key)
       THEN /\ Write(t, Call("ValidatorAnnounce", region, public_key, 0, BErr("InvalidMessage")),
                     validators_by_region)
            /\ UNCHANGED vacated
       ELSE LET o == register_validator(validators_by_region, region, public_key) IN
            /\ Write(t, Call("ValidatorAnnounce", region, public_key, 0, BOk),
                     o[2])
            /\ vacated' = Refilled(region, o[1])

\* handle_message, ValidatorLeave arm:
\* beacon.remove_validator(&region, &public_key); then Ok(())
HandleValidatorLeave(t, public_key, region) ==
    /\ bcall[t].pc = "idle"
    /\ Write(t, Call("ValidatorLeave", region, public_key, 0, BOk),
             remove_validator(validators_by_region, region, public_key))
    /\ vacated' = Vacated(validators_by_region, region, public_key)

\* leader: self.next_active_region().ok()??
LeaderRegion(t, view) ==
    /\ bcall[t].pc = "idle"
    /\ LET r == next_active_region(validators_by_region, current_region_idx) IN
       /\ current_region_idx' = r[2]
       /\ IF r[1] = "none"
          THEN /\ bcall' = [bcall EXCEPT ![t] =
                                [Call("leader", "none", <<>>, view, BNone)
                                     EXCEPT !.allEmpty = TRUE]]
               /\ UNCHANGED last_region
          ELSE /\ bcall' = [bcall EXCEPT ![t] =
                                [Call("leader", r[1], <<>>, view, BNone)
                                     EXCEPT !.pc = "pick", !.prev = last_region]]
               /\ last_region' = r[1]
    /\ UNCHANGED <<validators_by_region, vacated, nodeVars>>

\* leader: self.get_region_validators(&region), validators.is_empty(),
\* validators[(view as usize) % validators.len()]
LeaderPick(t) ==
    /\ bcall[t].pc = "pick"
    /\ LET vs == get_region_validators(validators_by_region, bcall[t].region) IN
       bcall' = [bcall EXCEPT ![t] = [@ EXCEPT !.pc = "done",
                                               !.ret = select_leader(vs, bcall[t].view)]]
    /\ UNCHANGED <<validators_by_region, current_region_idx, last_region, vacated,
                   nodeVars>>

\* Supervisor::participants(view)
Participants(t, view) ==
    /\ bcall[t].pc = "idle"
    /\ \E ret \in participants(validators_by_region) :
         bcall' = [bcall EXCEPT ![t] = Call("participants", "none", <<>>, view, ret)]
    /\ UNCHANGED <<validators_by_region, current_region_idx, last_region, vacated,
                   nodeVars>>

\* Supervisor::is_participant(view, candidate)
IsParticipant(t, view, candidate) ==
    /\ bcall[t].pc = "idle"
    /\ \E all \in get_all_validators(validators_by_region) :
         bcall' = [bcall EXCEPT ![t] = Call("is_participant", "none", candidate, view,
                                            is_participant(all, candidate))]
    /\ UNCHANGED <<validators_by_region, current_region_idx, last_region, vacated,
                   nodeVars>>

\* the caller has taken the result of a finished call
BeaconReturn(t) ==
    /\ bcall[t].pc = "done"
    /\ bcall' = [bcall EXCEPT ![t] = NoCall]
    /\ UNCHANGED <<validators_by_region, current_region_idx, last_region, vacated,
                   nodeVars>>

\* the registry changes: direct calls and validator messages
Registry(t) ==
    \/ \E region \in RegionNames, validator \in ValidatorKeys :
         RegisterValidator(t, region, validator)
    \/ \E region \in RegionNames, validator_key \in ValidatorKeys :
         RemoveValidator(t, region, validator_key)
    \/ \E public_key \in ValidatorKeys \cup {MalformedKey}, region \in RegionNames :
         HandleValidatorAnnounce(t, public_key, region)
    \/ \E public_key \in ValidatorKeys \cup {MalformedKey}, region \in RegionNames :
         HandleValidatorLeave(t, public_key, region)

\* Supervisor::leader(view, ())
Leader(t) ==
    \/ \E view \in 0..MaxView : LeaderRegion(t, view)
    \/ LeaderPick(t)

\* validators join and leave the configured regions
Membership(t) ==
    \/ \E region \in Regions, validator \in ValidatorKeys :
         RegisterValidator(t, region, validator)
    \/ \E region \in Regions, validator_key \in ValidatorKeys :
         RemoveValidator(t, region, validator_key)

\* Registry changes, by direct calls and by validator messages, and
\* participants, one call at a time as the tests of beacon.rs make them.
NextRegistry ==
    \/ BeaconReturn(Registrar)
    \/ Registry(Registrar)
    \/ \E view \in 0..MaxView : Participants(Registrar, view)

SpecRegistry == Init /\ [][NextRegistry]_vars

\* The engine's thread asks for leaders while the registrar's thread
\* changes the registry.
NextBeacon ==
    \/ \E t \in BThreads : BeaconReturn(t)
    \/ Membership(Registrar)
    \/ Leader(Engine)

SpecBeacon == Init /\ [][NextBeacon]_vars

\* The Supervisor as the engine uses it: one thread makes every call of
\* the trait and of the registry, one call at a time.
NextSupervisor ==
    \/ BeaconReturn(Engine)
    \/ Membership(Engine)
    \/ Leader(Engine)
    \/ \E view \in 0..MaxView : Participants(Engine, view)
    \/ \E view \in 0..MaxView, candidate \in ValidatorKeys :
         IsParticipant(Engine, view, candidate)

SpecSupervisor == Init /\ [][NextSupervisor]_vars

(***************************************************************************)
(* ConsensusRelay: leader election messages, validator announcements and   *)
(* init_consensus.                                                         *)
(***************************************************************************)

\* config.signer.public_key() of this node
OwnKey == <<13>>

\* bincode::serialize(&message): Ok or Err
bincode_serialize == BOOLEAN

\* network.send(recipient, Bytes::from(encoded), false).await: Ok or Err
network_send == BOOLEAN

\* one message handed to the transport by send_to, and what send returned
Handed(msg, view, region, key, to, out) ==
    [op |-> msg, hash |-> Zero, to |-> to, out |-> out,
     view |-> view, region |-> region, key |-> key]

\* send_to returning Ok(()) whatever serialize and send returned
SendTo_IgnoreFailure(t, recipient, msg, view, region, key) ==
    \E encoded \in bincode_serialize, sent \in network_send :
       /\ log' = [log EXCEPT ![t] =
                      IF encoded
                      THEN Append(@, Handed(msg, view, region, key, recipient,
                                            Outcome(sent)))
                      ELSE @]
       /\ res' = [res EXCEPT ![t] = Verdict("Ok")]

\* send_to(recipient, message) as the whole of task t's call:
\* serialize(..).map_err(SerializationError)?; network.lock().await;
\* network.send(..).await.map_err(NetworkError)?; Ok(())
SendTo(t, recipient, msg, view, region, key) ==
    \E encoded \in bincode_serialize, sent \in network_send :
       IF ~encoded
       THEN /\ res' = [res EXCEPT ![t] = Verdict("Serialization")]
            /\ UNCHANGED log
       ELSE /\ log' = [log EXCEPT ![t] =
                           Append(@, Handed(msg, view, region, key, recipient,
                                            Outcome(sent)))]
            /\ res' = [res EXCEPT ![t] = Verdict(IF sent THEN "Ok" ELSE "Network")]

\* task t makes the call k with a view and a key, and ends it in this step
RelayCall(t, k, view, key) ==
    /\ pc[t] = "idle"
    /\ kind' = [kind EXCEPT ![t] = k]
    /\ payload' = [payload EXCEPT ![t] = <<view>>]
    /\ ctx' = [ctx EXCEPT ![t] = key]
    /\ pc' = [pc EXCEPT ![t] = "done"]
    /\ UNCHANGED <<store, latest_hash, storage_lock, relay_lock, now,
                   relay_storage_lock, beaconVars, blk, par>>

\* a call that sends nothing and returns Ok(())
ReturnsOk(t) ==
    /\ res' = [res EXCEPT ![t] = Verdict("Ok")]
    /\ UNCHANGED log

\* broadcast_view_change(view): send_to(Recipients::All, ViewChange(view))
BroadcastViewChange(t, view) ==
    /\ RelayCall(t, "broadcast_view_change", view, Zero)
    /\ SendTo(t, All, "ViewChange", view, "none", Zero)

\* broadcast_leader_proposal(view): its body is Ok(())
broadcast_leader_proposal(t, view) == ReturnsOk(t)

\* handle_message, ViewChange arm: self.broadcast_leader_proposal(view).await?
HandleViewChange(t, view) ==
    /\ RelayCall(t, "ViewChange", view, Zero)
    /\ broadcast_leader_proposal(t, view)

\* verify_leader_proposal(view, proposed_leader): its body is Ok(true)
verify_leader_proposal(view, proposed_leader) == TRUE

\* send_leader_vote(view, leader):
\* send_to(Recipients::All, LeaderVote(view, leader))
send_leader_vote(t, view, elected) ==
    SendTo(t, All, "LeaderVote", view, "none", elected)

\* handle_message, LeaderProposal arm: if verify_leader_proposal(..)?
\* { send_leader_vote(view, proposed_leader).await?; }
HandleLeaderProposal(t, view, proposed_leader) ==
    /\ RelayCall(t, "LeaderProposal", view, proposed_leader)
    /\ IF verify_leader_proposal(view, proposed_leader)
       THEN send_leader_vote(t, view, proposed_leader)
       ELSE ReturnsOk(t)

\* handle_message, LeaderVote arm: process_leader_vote, whose body is Ok(())
HandleLeaderVote(t, view, elected) ==
    /\ RelayCall(t, "LeaderVote", view, elected)
    /\ ReturnsOk(t)

\* handle_message, LeaderAnnouncement arm: handle_leader_announcement,
\* whose body is Ok(())
HandleLeaderAnnouncement(t, view, elected) ==
    /\ RelayCall(t, "LeaderAnnouncement", view, elected)
    /\ ReturnsOk(t)

\* announce_validator(public_key, region):
\* send_to(Recipients::All, ValidatorAnnounce { public_key, region })
AnnounceValidator(t, public_key, region) ==
    /\ RelayCall(t, "announce_validator", 0, public_key)
    /\ SendTo(t, All, "ValidatorAnnounce", 0, region, public_key)

\* leave_region(public_key, region):
\* send_to(Recipients::All, ValidatorLeave { public_key, region })
LeaveRegion(t, public_key, region) ==
    /\ RelayCall(t, "leave_region", 0, public_key)
    /\ SendTo(t, All, "ValidatorLeave", 0, region, public_key)

\* the registry as BeaconConsensus::new leaves it
NewRegistry == [r \in {} |-> <<>>]

\* init_consensus: ConsensusRelay::new, BeaconConsensus::new(regions),
\* relay.announce_validator(signer.public_key(), regions[0])
\* .map_err(ConsensusError::Relay)?, then the Proposer and the Engine are
\* built and Ok(engine) is returned
InitConsensus(t) ==
    /\ validators_by_region = NewRegistry
    /\ RelayCall(t, "init_consensus", 0, OwnKey)
    /\ SendTo(t, All, "ValidatorAnnounce", 0, RegionList[1], OwnKey)

\* the election messages and validator calls of the relay
Election(t) ==
    \/ \E view \in 0..MaxView : BroadcastViewChange(t, view)
    \/ \E view \in 0..MaxView : HandleViewChange(t, view)
    \/ \E view \in 0..MaxView, proposed_leader \in ValidatorKeys \cup {OwnKey} :
         HandleLeaderProposal(t, view, proposed_leader)
    \/ \E view \in 0..MaxView, elected \in ValidatorKeys :
         HandleLeaderVote(t, view, elected)
    \/ \E view \in 0..MaxView, elected \in ValidatorKeys :
         HandleLeaderAnnouncement(t, view, elected)
    \/ \E region \in Regions : AnnounceValidator(t, OwnKey, region)
    \/ \E region \in Regions : LeaveRegion(t, OwnKey, region)

\* The node from init_consensus on: its relay handles the election
\* messages and the validator announcements of its peers for the first
\* region, and the node announces itself and leaves.
NextElection ==
    \/ \E t \in Tasks : Retire(t)
    \/ \E t \in Tasks : InitConsensus(t)
    \/ \E t \in Tasks : Election(t)
    \/ \E public_key \in ValidatorKeys \cup {OwnKey, MalformedKey} :
         HandleValidatorAnnounce(Registrar, public_key, RegionList[1])
    \/ BeaconReturn(Registrar)

SpecElection == Init /\ [][NextElection]_vars

(***************************************************************************)
(* Block synchronisation: this node verifies blocks that a peer stores,    *)
(* requests the ones it misses, and handles the peer's BlockResponse.      *)
(***************************************************************************)

\* the blocks the peer stores: valid children of the genesis sentinel
PeerBlocks == {Block_new(n, G, 1) : n \in 0..1}

\* a verify call of this node has handed a request for h to the transport
\* and its caller has not yet dropped the result
RequestSent(h) ==
    \E u \in Tasks :
       /\ kind[u] = "verify"
       /\ pc[u] = "done"
       /\ \E i \in 1..Len(log[u]) : log[u][i] = Ev("request", h, "ok")

\* the engine asks for the verification of the peer's block x against
\* its parent, again whenever it likes
VerifyPeerBlock(t, x) == StartVerify(t, x.parent_hash, x.hash)

\* the peer's handle_message found the requested block x and sent
\* BlockResponse(x) to the requester, whose relay now handles it
PeerResponse(t, x) ==
    /\ RequestSent(x.hash)
    /\ \E sender \in Peers : StartBlockMessage(t, "BlockResponse", x, sender)

\* the task in which the engine awaits its verify calls, one at a time
Verifier == 1

\* the task in which the relay handles the messages of its peers
Receiver == 2

\* the steps of the tasks of this node
SyncStep(t) ==
    \/ VerifyLock(t) \/ VerifyRelay(t) \/ VerifyRequest(t)
    \/ ValidateBlockLock(t) \/ ValidateBlockRelay(t) \/ ValidateBlockRequest(t)
    \/ BlockMessagePut(t)

NextSync ==
    \/ \E t \in Tasks : Retire(t)
    \/ \E x \in PeerBlocks : VerifyPeerBlock(Verifier, x)
    \/ VerifyLock(Verifier)
    \/ VerifyRelay(Verifier)
    \/ VerifyRequest(Verifier)
    \/ \E x \in PeerBlocks : PeerResponse(Receiver, x)
    \/ BlockMessagePut(Receiver)

SpecSync == Init /\ [][NextSync]_vars

\* Fair message delivery and scheduling: every task that can step again
\* and again does, results are taken, a request that is sent again and
\* again is answered, and the engine retries.
FairSync ==
    /\ SpecSync
    /\ \A t \in Tasks : SF_vars(SyncStep(t)) /\ SF_vars(Retire(t))
    /\ \A x \in PeerBlocks :
          /\ SF_vars(VerifyPeerBlock(Verifier, x))
          /\ SF_vars(PeerResponse(Receiver, x))

(***************************************************************************)
(* Claims.                                                                 *)
(***************************************************************************)
\* task t is inside a call
Running(t) == pc[t] \notin {"idle", "done"}

\* task t has finished a call of kind k
Done(t, k) == kind[t] = k /\ pc[t] = "done"

\* C1: if propose((round, parent_hash)) on the genesis sentinel or a stored
\* parent delivered the hash H, a verify((round, parent_hash), H) started
\* afterwards on the same Proposer delivers true.
C1_ProposeThenVerifyDeliversTrue ==
    \A u \in Tasks : \A t \in Tasks :
        []( ( /\ Done(u, "propose") /\ res[u].tag = "hash"
              /\ (ctx[u] = G \/ get_block_by_hash(store, ctx[u]) # {})
              /\ kind[t] = "verify" /\ pc[t] = "v_lock"
              /\ ctx[t] = ctx[u] /\ payload[t] = res[u].hash )
            => <>(Done(t, "verify") /\ res[t].tag = "bool" /\ res[t].ok) )

\* C2: every verify call eventually delivers its boolean, and so does every
\* propose, verify or committed call started at any time: no task waits
\* forever on the storage or the relay mutex.
C2_EveryCallCompletes ==
    \A t \in Tasks : [](Running(t) => <>(pc[t] = "done"))


\* the outcome of the first lookup of the call of task t ("skipped": none made)
Lookup(t) ==
    IF log[t] # <<>> /\ log[t][1].op = "get" THEN log[t][1].out ELSE "skipped"

\* no storage or relay operation of the call of task t failed
NoFault(t) == \A i \in 1..Len(log[t]) : log[t][i].out # "err"

\* the call of task t issued request_block(h)
Requested(t, h) ==
    \E i \in 1..Len(log[t]) : log[t][i].op = "request" /\ log[t][i].hash = h

\* task t moves in this step, inside a call of kind k
Moves(t, k) == kind'[t] = k /\ pc'[t] # pc[t]

\* the four conditions of the validation rule for candidate b and parent p
ValidAgainst(b, p) ==
    /\ b.hash = calculate_hash(b)
    /\ b.parent_hash = p.hash
    /\ b.number = p.number + 1
    /\ b.timestamp > p.timestamp

\* C3: for every candidate B and every stored parent P other than the
\* sentinel, validate_block(B, P.hash), with P resolved from the store,
\* succeeds if and only if B.hash == recompute_hash(B), B.parent_hash ==
\* P.hash, B.number == P.number + 1 and B.timestamp > P.timestamp.
C3_ValidateIffRule ==
    \A t \in Tasks :
        (Done(t, "validate") /\ ctx[t] # G) =>
            /\ Lookup(t) = "some" =>
                 /\ par[t].hash = ctx[t]
                 /\ res[t].ok <=> ValidAgainst(blk[t], par[t])
            /\ Lookup(t) = "skipped" =>
                 \A p \in get_block_by_hash(store, ctx[t]) :
                     res[t].ok <=> ValidAgainst(blk[t], p)

\* a candidate was validated against a stored parent and accepted
C3_Witness ==
    \E t \in Tasks :
        /\ Done(t, "validate") /\ ctx[t] # G /\ Lookup(t) = "some"
        /\ par[t] \in store /\ res[t].ok

C6_FirstFailure(b, e, look, p) ==
    IF b.parent_hash # e THEN "InvalidParentHash"
    ELSE IF e # G /\ look = "none" THEN "MissingParent"
    ELSE IF b.hash # calculate_hash(b) THEN "InvalidHash"
    ELSE IF e # G /\ b.number # p.number + 1 THEN "InvalidBlockNumber"
    ELSE IF e # G /\ b.timestamp <= p.timestamp THEN "InvalidTimestamp"
    ELSE "Ok"

\* what C6 says of a finished validate_block call of task t
C6_Verdict(t) ==
    LET b == blk[t]
        e == ctx[t]
    IN  /\ (NoFault(t) /\ ~(e = G /\ b.parent_hash = e /\ b.hash = calculate_hash(b)))
              => res[t].err = C6_FirstFailure(b, e, Lookup(t), par[t])
        /\ ~NoFault(t) => res[t].err \in {"Storage", "Relay"}
        /\ (b.parent_hash # e) => log[t] = <<>>
        /\ Requested(t, e) <=> (b.parent_hash = e /\ Lookup(t) = "none")

\* C6: validate_block checks in a fixed sequence and reports the first
\* failure: (1) parent_hash differs from the expected parent:
\* InvalidParentHash; (2) the expected parent is not the sentinel and not in
\* the store: a BlockRequest for it and MissingParent; (3) the hash is not
\* the recomputed one: InvalidHash; (4) number is not P.number + 1:
\* InvalidBlockNumber; (5) timestamp <= P.timestamp: InvalidTimestamp.  The
\* lookup answers for the store as it is, and no step of the validation
\* changes the store or the cached latest hash.  (A call one of whose
\* storage or relay operations fails ends with that fault.)
C6_ChecksInSequence ==
    [][ \A t \in Tasks :
          /\ Done(t, "validate")' => C6_Verdict(t)'
          /\ Moves(t, "validate") => UNCHANGED <<store, latest_hash>>
          /\ (Moves(t, "validate") /\ pc[t] = "vb_lock" /\ ctx[t] # G) =>
                /\ Lookup(t)' = "none" => get_block_by_hash(store, ctx[t]) = {}
                /\ Lookup(t)' = "some" => par'[t] \in get_block_by_hash(store, ctx[t])
      ]_vars

\* a candidate passed checks (1) .. (4) and failed (5)
C6_Witness ==
    \E t \in Tasks :
        /\ Done(t, "validate") /\ res[t].err = "InvalidTimestamp"
        /\ blk[t].number = par[t].number + 1 /\ par[t] \in store


\* task t is in propose with the block create_block returned
Constructed(t) ==
    kind[t] = "propose" /\ pc[t] \in {"p_lock", "p_relay", "p_bcast", "p_cache"}

\* C4: propose((round, G)) with G the genesis sentinel constructs a block
\* with number 0 and parent_hash G; propose on a stored parent P constructs
\* a block with number P.number + 1 and parent_hash P.hash.
C4_CreateBlockNumbering ==
    \A t \in Tasks :
        Constructed(t) =>
            /\ ctx[t] = G => (blk[t].number = 0 /\ blk[t].parent_hash = G)
            /\ ctx[t] # G =>
                 \A p \in get_block_by_hash(store, ctx[t]) :
                     blk[t].number = p.number + 1 /\ blk[t].parent_hash = p.hash

\* C7: verify((round, parent), h) with no block with hash h in the store
\* issues a BlockRequest for h and delivers false; it does so without any
\* wait for the block (the lookup goes straight on to the relay) and
\* without changing the store.
C7_VerifyNotFound ==
    [][ \A t \in Tasks :
          /\ (Done(t, "verify") /\ Lookup(t) = "none")' =>
                /\ res'[t] = DeliveredBool(FALSE, "NotFound")
                /\ Len(log'[t]) = 2
                /\ log'[t][2].op = "request" /\ log'[t][2].hash = payload'[t]
          /\ Moves(t, "verify") => UNCHANGED store
          /\ (Moves(t, "verify") /\ pc[t] = "v_lock"
                /\ get_block_by_hash(store, payload[t]) = {}) =>
                   /\ Lookup(t)' \in {"none", "err"}
                   /\ pc'[t] = "v_relay"
      ]_vars

\* a verify of a digest of no stored block has delivered false
C7_Witness ==
    \E t \in Tasks :
        /\ Done(t, "verify") /\ Lookup(t) = "none"
        /\ get_block_by_hash(store, payload[t]) = {}
        /\ res[t].tag = "bool" /\ ~res[t].ok

\* the call of task t made no put
NoPut(t) == \A i \in 1..Len(log[t]) : log[t][i].op # "put"

Delivers(t) ==
    Moves(t, "propose") /\ pc'[t] = "done" /\ res'[t].tag = "hash"

\* the block with hash h and the requested parent is stored, was broadcast
\* and is the cached latest hash as the task t replies, and the call's
\* effects end with put, broadcast, cache update, in this order
PersistedBroadcastCached(t, h) ==
    LET l == log'[t]
        n == Len(l)
    IN  /\ \E b \in store' : b.hash = h /\ b.parent_hash = ctx'[t]
        /\ latest_hash' = h
        /\ n >= 3
        /\ l[n - 2] = Ev("put", h, "ok")
        /\ l[n - 1] = Ev("broadcast", h, "ok")
        /\ l[n] = Ev("cache", h, "ok")

PutOrBroadcastFailed(t) ==
    \E i \in 1..Len(log[t]) :
        log[t][i].op \in {"put", "broadcast"} /\ log[t][i].out = "err"

\* C10: if put_block or the broadcast fails during propose, the proposal
\* leaves no partial state: the store holds no block of this attempt, the
\* attempt did not update the cached latest hash, and no hash is delivered.
C10_NoPartialState ==
    \A t \in Tasks :
        (Done(t, "propose") /\ PutOrBroadcastFailed(t)) =>
            /\ ~(\E i \in 1..Len(log[t]) :
                    log[t][i] = Ev("put", blk[t].hash, "ok") /\ blk[t] \in store)
            /\ \A i \in 1..Len(log[t]) : log[t][i].op # "cache"
            /\ res[t].tag # "hash"


\* C11: every block propose constructs on a stored parent P has a timestamp
\* strictly greater than P.timestamp, also when the wall clock equals or is
\* behind P.timestamp.
C11_TimestampAfterParent ==
    \A t \in Tasks :
        (Constructed(t) /\ ctx[t] # G) =>
            \A p \in get_block_by_hash(store, ctx[t]) :
                blk[t].timestamp > p.timestamp

\* C12: committed(payload) never fails or panics, for any payload: it sets
\* the cached latest hash to the finalized hash, broadcasts NewBlock(block)
\* to all peers if and only if the lookup finds that block, swallows any
\* lookup or send error and puts nothing into the store.
C12_CommittedNeverFails ==
    \A t \in Tasks :
        Done(t, "committed") =>
            /\ res[t] = Returned
            /\ Len(log[t]) >= 2
            /\ log[t][1] = Ev("cache", payload[t], "ok")
            /\ log[t][2].op = "get" /\ log[t][2].hash = payload[t]
            /\ (\E i \in 1..Len(log[t]) :
                    log[t][i].op = "broadcast" /\ log[t][i].hash = payload[t])
                 <=> log[t][2].out = "some"
            /\ NoPut(t)

\* C13: genesis() returns the same fixed sentinel on every call and in
\* every state, and changes neither the store, nor the cached latest hash,
\* nor the mutexes, and sends nothing.
C13_GenesisFixed ==
    [][ \A t \in Tasks :
          (pc[t] = "idle" /\ kind'[t] = "genesis") =>
              /\ res'[t] = DeliveredHash(G, "Ok")
              /\ log'[t] = <<>>
              /\ UNCHANGED <<store, latest_hash, storage_lock, relay_lock>>
      ]_vars

\* genesis() has returned while blocks are stored and the cached latest
\* hash is not the sentinel
C13_Witness ==
    \E t \in Tasks :
        /\ Done(t, "genesis") /\ res[t].hash = G
        /\ store # {} /\ latest_hash # G


\* a direct call of the BlockStorage operation k is made in this step by t
Calls(t, k) == pc[t] = "idle" /\ kind'[t] = k /\ pc'[t] = "done"

\* C14: after put(B) succeeds, get_by_hash(B.hash) returns B,
\* get_by_height(B.number) returns B and has(B.number) is true, for any
\* block B and any prior contents of the store.
C14_PutThenGet ==
    [][ \A t \in Tasks :
          (Calls(t, "put_block") /\ res'[t].tag = "Ok") =>
              LET B == res'[t].arg
              IN  /\ get_block_by_hash(store', B.hash) = {B}
                  /\ get_block_by_number(store', B.number) = {B}
                  /\ has_block(store', B.number)
      ]_vars

\* what the lookups of a store s return, for all their arguments
Observable(s) ==
    [by_number |-> [n \in StoreHeights |-> get_block_by_number(s, n)],
     by_hash   |-> [h \in {b.hash : b \in StoreBlocks} |-> get_block_by_hash(s, h)],
     has       |-> [n \in StoreHeights |-> has_block(s, n)],
     gap       |-> [n \in StoreHeights |-> next_gap(s, n)]]

\* every lookup of s has one answer, fixed by the blocks s holds (and not
\* by the order in which they were put)
Determined(s) ==
    /\ \A n \in StoreHeights : Cardinality(get_block_by_number(s, n)) <= 1
    /\ \A b \in StoreBlocks : Cardinality(get_block_by_hash(s, b.hash)) <= 1

\* C15: put is idempotent and insensitive to arrival order: a put of a
\* block the store already holds leaves what get_by_height, get_by_hash,
\* has and next_gap return unchanged, and after puts of blocks with
\* distinct heights, in whatever order they arrive, what the lookups return
\* depends on the set of blocks only.
C15_PutIdempotentAnyOrder ==
    [][ \A t \in Tasks :
          Calls(t, "put_block") =>
              /\ res'[t].arg \in store => Observable(store') = Observable(store)
              /\ Determined(store')
      ]_vars

Gone(s, b) ==
    b \notin get_block_by_number(s, b.number) /\ b \notin get_block_by_hash(s, b.hash)

\* the lookups still return b from s
Kept(s, b) ==
    get_block_by_number(s, b.number) = {b} /\ b \in get_block_by_hash(s, b.hash)

C18_StoredHashesConsistent ==
    \A b \in store : b.hash = calculate_hash(b)

\* C19: handle_message(BlockRequest(h), sender) leaves the store as it is;
\* when no block with hash h is stored it sends nothing; when its lookup
\* finds a block it sends exactly one message, BlockResponse with a stored
\* block of hash h, to Single(sender) and to nobody else.  A hash of fewer
\* than HashLen bytes names no block: nothing is sent for it either.
C19_RequestAnsweredToSender ==
    [][\A t \in Tasks :
         Moves(t, "BlockRequest") =>
           /\ store' = store
           /\ (pc[t] = "hr_lock" /\ SliceOutOfRange(payload[t])) =>
                /\ pc'[t] = "done"
                /\ log'[t] = <<>>
           /\ (pc[t] = "hr_lock" /\ ~SliceOutOfRange(payload[t])) =>
                LET h == payload[t].head IN
                /\ get_block_by_hash(store, h) = {} =>
                     /\ pc'[t] = "done"
                     /\ Len(log'[t]) = 1
                     /\ log'[t][1].op = "get"
                /\ Lookup(t)' = "some" =>
                     /\ pc'[t] = "hr_send"
                     /\ blk'[t] \in get_block_by_hash(store, h)
                     /\ Len(log'[t]) = 1
                /\ Lookup(t)' # "some" =>
                     /\ pc'[t] = "done"
                     /\ Len(log'[t]) = 1
           /\ pc[t] = "hr_send" =>
                /\ pc'[t] = "done"
                /\ Len(log'[t]) = 2
                /\ log'[t][2].op = "BlockResponse"
                /\ log'[t][2].hash = payload[t]
                /\ log'[t][2].to = Single(ctx[t])
                /\ blk[t].hash = payload[t]]_vars

\* a request from a peer for a stored block has been answered to that peer
C19_Witness ==
    \E t \in Tasks :
        /\ Done(t, "BlockRequest")
        /\ Len(log[t]) = 2
        /\ log[t][2] = Sent("BlockResponse", payload[t], ctx[t], "ok")
        /\ ctx[t] \in Peers
        /\ blk[t] \in store

\* C20: Relay::broadcast(payload_hash) leaves the store as it is and raises
\* no error; when no block with that hash is stored it sends nothing; when
\* its lookup finds a block it sends exactly one message, NewBlock with a
\* stored block of that hash, to all peers.
C20_BroadcastIffStored ==
    [][\A t \in Tasks :
         Moves(t, "broadcast") =>
           /\ store' = store
           /\ pc[t] = "b_lock" =>
                /\ get_block_by_hash(store, payload[t]) = {} =>
                     /\ pc'[t] = "done"
                     /\ Len(log'[t]) = 1
                     /\ log'[t][1].op = "get"
                /\ Lookup(t)' = "some" =>
                     /\ pc'[t] = "b_send"
                     /\ blk'[t] \in get_block_by_hash(store, payload[t])
                     /\ Len(log'[t]) = 1
                /\ Lookup(t)' # "some" =>
                     /\ pc'[t] = "done"
                     /\ Len(log'[t]) = 1
                /\ pc'[t] = "done" => res'[t] = Returned
           /\ pc[t] = "b_send" =>
                /\ pc'[t] = "done"
                /\ res'[t] = Returned
                /\ Len(log'[t]) = 2
                /\ log'[t][2].op = "NewBlock"
                /\ log'[t][2].hash = payload[t]
                /\ log'[t][2].to = All
                /\ blk[t].hash = payload[t]]_vars

\* broadcast has sent a stored block to all peers, and another broadcast,
\* of a hash of no stored block, has returned without sending
C20_Witness ==
    \E t, u \in Tasks :
        /\ Done(t, "broadcast")
        /\ Len(log[t]) = 2
        /\ log[t][2] = Sent("NewBlock", payload[t], All, "ok")
        /\ blk[t] \in store
        /\ Done(u, "broadcast")
        /\ log[u] = <<Ev("get", Absent, "none")>>
        /\ res[u] = Returned


\* thread t makes a whole call op in this step
BCalls(t, op) ==
    bcall[t].pc = "idle" /\ bcall'[t].op = op /\ bcall'[t].pc = "done"

\* thread t ends a call op in this step
BEnds(t, op) ==
    bcall[t].pc # "done" /\ bcall'[t].op = op /\ bcall'[t].pc = "done"

\* the validators in a list
Range(vs) == {vs[i] : i \in 1..Len(vs)}

\* the regions with validators
NonEmpty(reg) == {r \in Regions : get_region_validators(reg, r) # <<>>}

\* C21: handle_message(ValidatorAnnounce{identity, region}) with a region
\* that is not configured returns an error to its caller, leaves the
\* registry unchanged and sends nothing; with a configured region it
\* registers the identity in that region.
C21_AnnounceUnknownRegionRejected ==
    [][\A t \in BThreads :
         (BCalls(t, "ValidatorAnnounce") /\ from_public_key(bcall'[t].key)) =>
           LET region == bcall'[t].region IN
           IF ~contains(region)
           THEN /\ bcall'[t].ret.tag = "Err"
                /\ bcall'[t].ret.err = "InvalidRegion"
                /\ validators_by_region' = validators_by_region
                /\ log' = log
           ELSE validators_by_region'[region] =
                    Append(get_region_validators(validators_by_region, region),
                           bcall'[t].key)]_vars

\* C22: remove_validator(region, id), called directly or for ValidatorLeave,
\* returns Ok, removes all occurrences of id from the region's list, keeps
\* the order of the other validators, leaves every other region as it is,
\* and is idempotent: with id absent or no list for the region nothing
\* changes, and removing again changes nothing.
C22_RemoveAllKeepOrder ==
    [][\A t \in BThreads :
         (BCalls(t, "remove_validator") \/ BCalls(t, "ValidatorLeave")) =>
           LET region == bcall'[t].region
               id == bcall'[t].key
               old == validators_by_region
               new == validators_by_region'
           IN  /\ bcall'[t].ret = BOk
               /\ DOMAIN new = DOMAIN old
               /\ \A r \in DOMAIN old : r # region => new[r] = old[r]
               /\ region \in DOMAIN old =>
                    /\ id \notin Range(new[region])
                    /\ new[region] = SelectSeq(old[region], LAMBDA v : v # id)
               /\ (region \notin DOMAIN old \/ id \notin Range(old[region])) =>
                    new = old
               /\ remove_validator(new, region, id) = new]_vars

\* the only validator of a region has been removed, the region is empty
\* and another region has kept its two validators
C22_Witness ==
    /\ bcall[Registrar].op \in {"remove_validator", "ValidatorLeave"}
    /\ bcall[Registrar].pc = "done"
    /\ bcall[Registrar].ret = BOk
    /\ <<bcall[Registrar].region, bcall[Registrar].key>> \in vacated
    /\ validators_by_region[bcall[Registrar].region] = <<>>
    /\ \E r \in DOMAIN validators_by_region :
         /\ r # bcall[Registrar].region
         /\ Len(validators_by_region[r]) = 2
         /\ validators_by_region[r][1] # validators_by_region[r][2]

\* C23: register_validator(region, id) with a configured region returns Ok
\* and appends id at the end of the region's list, the validators already
\* there keeping their order and the other regions their lists; with another
\* region it returns InvalidRegion and leaves the registry unchanged.
C23_RegisterAppends ==
    [][\A t \in BThreads :
         BCalls(t, "register_validator") =>
           LET region == bcall'[t].region
               id == bcall'[t].key
               old == validators_by_region
               new == validators_by_region'
           IN  IF region \in Regions
               THEN /\ bcall'[t].ret = BOk
                    /\ DOMAIN new = DOMAIN old \cup {region}
                    /\ \A r \in DOMAIN old : r # region => new[r] = old[r]
                    /\ new[region] = get_region_validators(old, region) \o <<id>>
               ELSE /\ bcall'[t].ret = BErr("InvalidRegion")
                    /\ new = old]_vars

\* a validator has been registered behind another one
C23_Witness ==
    /\ bcall[Registrar].op = "register_validator"
    /\ bcall[Registrar].pc = "done"
    /\ bcall[Registrar].ret = BOk
    /\ bcall[Registrar].region \in DOMAIN validators_by_region
    /\ LET vs == validators_by_region[bcall[Registrar].region] IN
         /\ Len(vs) = 2
         /\ vs[2] = bcall[Registrar].key
         /\ vs[1] # vs[2]

\* C24: a leader call never selects an empty region, and never the region
\* the leader call before it selected, the registry unchanged in between,
\* unless exactly one region has validators; with validators in A and C
\* only, the calls alternate between A and C.
C24_RotationAlternates ==
    [][\A t \in BThreads :
         (bcall[t].pc = "idle" /\ bcall'[t].op = "leader") =>
           LET sel == bcall'[t].region IN
           IF bcall'[t].pc = "pick"
           THEN /\ sel \in NonEmpty(validators_by_region)
                /\ bcall'[t].prev = last_region
                /\ sel = last_region =>
                     Cardinality(NonEmpty(validators_by_region)) = 1
                /\ (NonEmpty(validators_by_region) = {"A", "C"}
                      /\ last_region \in {"A", "C"}) =>
                     sel \in {"A", "C"} \ {last_region}
           ELSE AllEmpty(validators_by_region)]_vars

\* with validators in A and C only, a leader call has selected C right
\* after a leader call that selected A
C24_Witness ==
    /\ bcall[Engine].op = "leader"
    /\ bcall[Engine].prev = "A"
    /\ bcall[Engine].region = "C"
    /\ ~bcall[Engine].mutated
    /\ NonEmpty(validators_by_region) = {"A", "C"}

\* C25: leader returns None only if all regions were empty at some instant
\* during the call.
C25_NoneOnlyIfAllEmpty ==
    \A t \in BThreads :
        (bcall[t].op = "leader" /\ bcall[t].pc = "done" /\ bcall[t].ret = BNone)
            => bcall[t].allEmpty

\* C26: leader(round) on an instance that has served leader calls before
\* returns what an instance with the same region list and the same
\* registry that has served none returns for that round.
C26_LeaderFunctionOfRound ==
    [][\A t \in BThreads :
         (BEnds(t, "leader") /\ ~bcall[t].mutated) =>
           bcall'[t].ret = leader(validators_by_region, 0, bcall'[t].view)]_vars

\* C27: when leader(round) has selected a region whose list, in registration
\* order, is vs, it returns vs[round mod len(vs)].
C27_LeaderByRoundModLen ==
    [][\A t \in BThreads :
         (bcall[t].pc = "pick" /\ BEnds(t, "leader")) =>
           LET vs == get_region_validators(validators_by_region, bcall[t].region)
               round == bcall[t].view
           IN  vs # <<>> =>
                 bcall'[t].ret = BSome(<<vs[(round % Len(vs)) + 1]>>)]_vars

\* leader(1) has returned the second of the two validators of the region
\* it selected
C27_Witness ==
    /\ bcall[Engine].op = "leader"
    /\ bcall[Engine].pc = "done"
    /\ bcall[Engine].view = 1
    /\ ~bcall[Engine].mutated
    /\ LET vs == get_region_validators(validators_by_region, bcall[Engine].region) IN
         /\ Len(vs) = 2
         /\ vs[1] # vs[2]
         /\ bcall[Engine].ret = BSome(<<vs[2]>>)

C29_OneRegionPerIdentity ==
    \A v \in ValidatorKeys :
        Cardinality({r \in DOMAIN validators_by_region :
                        v \in Range(validators_by_region[r])}) <= 1

\* C30: participants(round) returns every registered identity exactly once,
\* and None if and only if no validator is registered in any region.
C30_ParticipantsDeduplicated ==
    [][\A t \in BThreads :
         BCalls(t, "participants") =>
           LET registered ==
                   UNION {Range(validators_by_region[r]) :
                             r \in DOMAIN validators_by_region}
               ret == bcall'[t].ret
           IN  /\ ret = BNone <=> registered = {}
               /\ ret.tag = "Some" =>
                    /\ Range(ret.val) = registered
                    /\ Len(ret.val) = Cardinality(registered)]_vars

RECURSIVE in_region_order(_, _)
\* the lists of the regions from the i-th of RegionList on, concatenated
in_region_order(reg, i) ==
    IF i > Len(RegionList) THEN <<>>
    ELSE get_region_validators(reg, RegionList[i]) \o in_region_order(reg, i + 1)

\* C31: is_participant(round, c) returns the index c has in the list made
\* of the regions' validator lists, concatenated in the order the regions
\* were given at construction, and None exactly when c is in no region.
C31_IndexInRegionOrder ==
    [][\A t \in BThreads :
         BCalls(t, "is_participant") =>
           bcall'[t].ret = is_participant(in_region_order(validators_by_region, 1),
                                          bcall'[t].key)]_vars

\* thread t takes the first step of leader in this step
LeaderStarts(t) == bcall[t].pc = "idle" /\ bcall'[t].op = "leader"

\* the region current_region_idx + k names, wrapping around
RegionAt(k) == RegionList[((current_region_idx + k) % Len(RegionList)) + 1]

\* C35: current_region_idx is always at least 0 and below the number of
\* regions; a leader call returns the first region with validators among
\* the len(regions) regions from the cursor on and leaves the cursor one
\* past it, modulo len(regions), or where it was when no region has
\* validators; no other step moves the cursor.
C35_CursorOnePastSelected ==
    [][/\ current_region_idx \in 0..(Len(RegionList) - 1)
       /\ current_region_idx' \in 0..(Len(RegionList) - 1)
       /\ \A t \in BThreads :
            LeaderStarts(t) =>
              IF bcall'[t].pc = "done"
              THEN /\ AllEmpty(validators_by_region)
                   /\ current_region_idx' = current_region_idx
              ELSE \E k \in 0..(Len(RegionList) - 1) :
                     /\ bcall'[t].region = RegionAt(k)
                     /\ \A j \in 0..(k - 1) :
                          get_region_validators(validators_by_region, RegionAt(j)) = <<>>
                     /\ current_region_idx' = (current_region_idx + k + 1) % Len(RegionList)
       /\ (\A t \in BThreads : ~LeaderStarts(t)) =>
            current_region_idx' = current_region_idx]_vars

\* leader has skipped an empty region, selected the last region of the
\* list and left the cursor on the first
C35_Witness ==
    /\ bcall[Engine].op = "leader"
    /\ bcall[Engine].pc = "done"
    /\ bcall[Engine].region = RegionList[Len(RegionList)]
    /\ bcall[Engine].ret # BNone
    /\ current_region_idx = 0
    /\ get_region_validators(validators_by_region, RegionList[2]) = <<>>
    /\ get_region_validators(validators_by_region, RegionList[1]) # <<>>

\* C36: register_validator, remove_validator, participants and
\* is_participant leave current_region_idx as it is; leader, participants
\* and is_participant leave the registry as it is.
C36_CallsKeepCursorAndRegistry ==
    [][\A t \in BThreads :
         /\ (\E op \in {"register_validator", "remove_validator", "participants",
                        "is_participant"} : BCalls(t, op))
              => current_region_idx' = current_region_idx
         /\ (LeaderStarts(t) \/ BEnds(t, "leader") \/ BCalls(t, "participants")
                \/ BCalls(t, "is_participant"))
              => validators_by_region' = validators_by_region]_vars

\* a validator has been registered while the cursor was past the first
\* region, and the cursor is still there
C36_Witness ==
    /\ current_region_idx # 0
    /\ bcall[Engine].op = "register_validator"
    /\ bcall[Engine].pc = "done"
    /\ bcall[Engine].ret = BOk
    /\ bcall[Engine].region = RegionList[1]
    /\ Len(get_region_validators(validators_by_region, RegionList[1])) = 1

\* task t makes the whole call k in this step
RelayCalls(t, k) == pc[t] = "idle" /\ pc'[t] = "done" /\ kind'[t] = k

\* the validators registered in some region
Registered(reg) == UNION {Range(reg[r]) : r \in DOMAIN reg}

\* C32: handling ViewChange(round) sends LeaderProposal(round, candidate)
\* to all peers, candidate being the leader Leader Election chooses for
\* the round.
C32_ViewChangeSendsProposal ==
    [][\A t \in Tasks :
         RelayCalls(t, "ViewChange") =>
           \E i \in 1..Len(log'[t]) :
              /\ log'[t][i].op = "LeaderProposal"
              /\ log'[t][i].to = All
              /\ log'[t][i].view = payload'[t][1]
              /\ leader(validators_by_region, current_region_idx, payload'[t][1])
                   = BSome(<<log'[t][i].key>>)]_vars

\* C33: on LeaderProposal(round, candidate) a LeaderVote is sent only for a
\* valid leader: no vote is sent for a candidate that is not a registered
\* validator.
C33_VoteOnlyForRegistered ==
    [][\A t \in Tasks :
         (/\ RelayCalls(t, "LeaderProposal")
          /\ \E i \in 1..Len(log'[t]) : log'[t][i].op = "LeaderVote")
           => ctx'[t] \in Registered(validators_by_region)]_vars

\* the message each sending call of the relay sends
MessageOf(k) ==
    CASE k = "broadcast_view_change" -> "ViewChange"
      [] k = "announce_validator" -> "ValidatorAnnounce"
      [] k = "leave_region" -> "ValidatorLeave"

\* C34: a send_to call (made by broadcast_view_change, announce_validator
\* or leave_region) hands at most one message to the transport: none when
\* serialization fails, and otherwise exactly one, of the call's kind and
\* content and for the recipient selector given (all peers); it returns an
\* error exactly when serialization or the transport's send fails;
\* announce_validator and leave_region change neither the registry nor the
\* store.
C34_SendToHandsOneMessage ==
    [][\A t \in Tasks :
         \A k \in {"broadcast_view_change", "announce_validator", "leave_region"} :
            RelayCalls(t, k) =>
              LET l == log'[t]
                  e == res'[t].err
              IN  /\ Len(l) <= 1
                  /\ e \in {"Ok", "Serialization", "Network"}
                  /\ res'[t].ok <=> (e = "Ok")
                  /\ (e = "Serialization") <=> (l = <<>>)
                  /\ Len(l) = 1 =>
                       /\ l[1].op = MessageOf(k)
                       /\ l[1].to = All
                       /\ l[1].key = ctx'[t]
                       /\ l[1].view = payload'[t][1]
                       /\ (e = "Ok") <=> (l[1].out = "ok")
                       /\ (e = "Network") <=> (l[1].out = "err")
                  /\ k # "broadcast_view_change" =>
                       /\ validators_by_region' = validators_by_region
                       /\ store' = store
                       /\ latest_hash' = latest_hash]_vars

\* announce_validator has returned Ok after one ValidatorAnnounce for the
\* node's key went to all peers, and the registry holds a peer but not
\* the node
C34_Witness ==
    \E t \in Tasks :
       /\ Done(t, "announce_validator")
       /\ res[t] = Verdict("Ok")
       /\ log[t] = <<Handed("ValidatorAnnounce", 0, RegionList[1], OwnKey, All, "ok")>>
       /\ Registered(validators_by_region) # {}
       /\ OwnKey \notin Registered(validators_by_region)

\* C39: when init_consensus has returned Ok, ValidatorAnnounce for the
\* node's own public key and regions[0] has been sent to all peers, and
\* the node's identity is registered under regions[0] in the node's own
\* registry.
C39_InitRegistersOwnIdentity ==
    [][\A t \in Tasks :
         (RelayCalls(t, "init_consensus") /\ res'[t].ok) =>
           /\ \E i \in 1..Len(log'[t]) :
                 log'[t][i] = Handed("ValidatorAnnounce", 0, RegionList[1], OwnKey,
                                     All, "ok")
           /\ OwnKey \in Range(get_region_validators(validators_by_region',
                                                     RegionList[1]))]_vars

\* C37: handle_message returns Ok or a RelayError and never panics, whatever
\* the inbound message, a BlockRequest with a hash shorter than 32 bytes
\* included; Relay.broadcast never panics on a payload shorter than 32
\* bytes.
C37_RelayNeverPanics ==
    \A t \in Tasks :
       kind[t] \in {"BlockRequest", "BlockResponse", "NewBlock", "broadcast"} =>
         res[t] # Panicked

\* C38: a block X of the peer gets into this node's store only as the
\* peer's BlockResponse to the BlockRequest of a verify that found X
\* missing; once X is there, under fair scheduling every later verify for
\* X on this node ends having found the block, not reporting it missing.
C38_LaterVerifyFindsDeliveredBlock ==
    \A x \in PeerBlocks : \A t \in Tasks :
       (/\ x \in store
        /\ kind[t] = "verify"
        /\ pc[t] = "v_lock"
        /\ payload[t] = x.hash)
         ~> (/\ Done(t, "verify")
             /\ payload[t] = x.hash
             /\ Lookup(t) # "none")

=============================================================================
